---------------------------- MODULE Spec2Model ----------------------------
(***************************************************************************)
(* Model of the client-identity pipeline of jmqtt:                         *)
(*   jmqtt/client_identity/validation.py  (component validator)            *)
(*   jmqtt/client_identity/facts.py       (fact probe, normalization)      *)
(*   jmqtt/client_identity/hashing.py     (compact token, BLAKE2s/base32)  *)
(*   jmqtt/client_identity/client_id.py   (fingerprint, identifier)        *)
(*                                                                         *)
(* Strings are sequences of code points (ASCII, 0..127).  A Python value   *)
(* is a record [t, v]: t = "str" with v the characters, or t = "none",     *)
(* or t = "int" (some non-string object) with v empty.                     *)
(* A 32-bit word is a pair <<hi, lo>> of 16-bit halves.                    *)
(***************************************************************************)
EXTENDS Integers, Sequences, FiniteSets, TLC

\* ------------------------------------------------------------------------
\* Python values and str methods
\* ------------------------------------------------------------------------

Str(s) == [t |-> "str", v |-> s]

NoneVal == [t |-> "none", v |-> <<>>]

NotAStr == [t |-> "int", v |-> <<>>]

\* str.isspace() on one ASCII character: \t \n \v \f \r, FS GS RS US, space
IsSpace(c) == c \in {9, 10, 11, 12, 13, 28, 29, 30, 31, 32}

RECURSIVE LStrip(_)
LStrip(s) == IF s = <<>> THEN <<>>
             ELSE IF IsSpace(Head(s)) THEN LStrip(Tail(s)) ELSE s

RECURSIVE RStrip(_)
RStrip(s) == IF s = <<>> THEN <<>>
             ELSE IF IsSpace(s[Len(s)]) THEN RStrip(SubSeq(s, 1, Len(s) - 1)) ELSE s

\* str.strip()
Strip(s) == RStrip(LStrip(s))

\* str.lower() on ASCII
LowerChar(c) == IF c >= 65 /\ c <= 90 THEN c + 32 ELSE c

Lower(s) == [i \in 1..Len(s) |-> LowerChar(s[i])]

\* str.isalnum() on one ASCII character
IsAlnum(c) == (c >= 48 /\ c <= 57) \/ (c >= 65 /\ c <= 90) \/ (c >= 97 /\ c <= 122)

\* s[:n] for n >= 0
Take(s, n) == SubSeq(s, 1, IF n < Len(s) THEN n ELSE Len(s))

\* Python's order on str: lexicographic by code point
RECURSIVE StrLess(_, _)
StrLess(a, b) == IF b = <<>> THEN FALSE
                 ELSE IF a = <<>> THEN TRUE
                 ELSE IF Head(a) # Head(b) THEN Head(a) < Head(b)
                 ELSE StrLess(Tail(a), Tail(b))

\* F applied to the value of x, which is computed once, before F is applied
Strict(x, F(_)) == CHOOSE r \in {F(y) : y \in {x}} : TRUE

\* the function f on 1..16 as a tuple
Tuple16(f) == <<f[1], f[2], f[3], f[4], f[5], f[6], f[7], f[8],
                f[9], f[10], f[11], f[12], f[13], f[14], f[15], f[16]>>

\* ------------------------------------------------------------------------
\* hashlib.blake2s (RFC 7693), unkeyed, sequential mode
\* ------------------------------------------------------------------------

XorNib == <<
  0, 1, 2, 3, 4, 5, 6, 7, 8, 9, 10, 11, 12, 13, 14, 15,
  1, 0, 3, 2, 5, 4, 7, 6, 9, 8, 11, 10, 13, 12, 15, 14,
  2, 3, 0, 1, 6, 7, 4, 5, 10, 11, 8, 9, 14, 15, 12, 13,
  3, 2, 1, 0, 7, 6, 5, 4, 11, 10, 9, 8, 15, 14, 13, 12,
  4, 5, 6, 7, 0, 1, 2, 3, 12, 13, 14, 15, 8, 9, 10, 11,
  5, 4, 7, 6, 1, 0, 3, 2, 13, 12, 15, 14, 9, 8, 11, 10,
  6, 7, 4, 5, 2, 3, 0, 1, 14, 15, 12, 13, 10, 11, 8, 9,
  7, 6, 5, 4, 3, 2, 1, 0, 15, 14, 13, 12, 11, 10, 9, 8,
  8, 9, 10, 11, 12, 13, 14, 15, 0, 1, 2, 3, 4, 5, 6, 7,
  9, 8, 11, 10, 13, 12, 15, 14, 1, 0, 3, 2, 5, 4, 7, 6,
  10, 11, 8, 9, 14, 15, 12, 13, 2, 3, 0, 1, 6, 7, 4, 5,
  11, 10, 9, 8, 15, 14, 13, 12, 3, 2, 1, 0, 7, 6, 5, 4,
  12, 13, 14, 15, 8, 9, 10, 11, 4, 5, 6, 7, 0, 1, 2, 3,
  13, 12, 15, 14, 9, 8, 11, 10, 5, 4, 7, 6, 1, 0, 3, 2,
  14, 15, 12, 13, 10, 11, 8, 9, 6, 7, 4, 5, 2, 3, 0, 1,
  15, 14, 13, 12, 11, 10, 9, 8, 7, 6, 5, 4, 3, 2, 1, 0 >>

Xor16(a, b) == 4096 * XorNib[16 * (a \div 4096) + (b \div 4096) + 1]
               + 256 * XorNib[16 * ((a \div 256) % 16) + ((b \div 256) % 16) + 1]
               + 16 * XorNib[16 * ((a \div 16) % 16) + ((b \div 16) % 16) + 1]
               + XorNib[16 * (a % 16) + (b % 16) + 1]

WXor(x, y) == <<Xor16(x[1], y[1]), Xor16(x[2], y[2])>>

\* addition modulo 2^32
WAdd(x, y) == <<(x[1] + y[1] + ((x[2] + y[2]) \div 65536)) % 65536, (x[2] + y[2]) % 65536>>

\* x + y + z modulo 2^32
WAdd3(x, y, z) == <<(x[1] + y[1] + z[1] + ((x[2] + y[2] + z[2]) \div 65536)) % 65536,
                    (x[2] + y[2] + z[2]) % 65536>>

\* rotate right by 16 bits
WRotr16(x) == <<x[2], x[1]>>

\* rotate right by n bits, 2^n = p and n < 16
WRotr(x, p) == <<(x[2] % p) * (65536 \div p) + (x[1] \div p),
                (x[1] % p) * (65536 \div p) + (x[2] \div p)>>

BlakeIV == << <<27145, 58983>>, <<47975, 44677>>, <<15470, 62322>>, <<42319, 62778>>,
              <<20750, 21119>>, <<39685, 26764>>, <<8067, 55723>>, <<23520, 52505>> >>

BlakeSigma == << <<0, 1, 2, 3, 4, 5, 6, 7, 8, 9, 10, 11, 12, 13, 14, 15>>,
                 <<14, 10, 4, 8, 9, 15, 13, 6, 1, 12, 0, 2, 11, 7, 5, 3>>,
                 <<11, 8, 12, 0, 5, 2, 15, 13, 10, 14, 3, 6, 7, 1, 9, 4>>,
                 <<7, 9, 3, 1, 13, 12, 11, 14, 2, 6, 5, 10, 4, 0, 15, 8>>,
                 <<9, 0, 5, 7, 2, 4, 10, 15, 14, 1, 11, 12, 6, 8, 3, 13>>,
                 <<2, 12, 6, 10, 0, 11, 8, 3, 4, 13, 7, 5, 15, 14, 1, 9>>,
                 <<12, 5, 1, 15, 14, 13, 4, 10, 0, 7, 6, 3, 9, 2, 8, 11>>,
                 <<13, 11, 7, 14, 12, 1, 3, 9, 5, 0, 15, 4, 8, 6, 2, 10>>,
                 <<6, 15, 14, 9, 11, 3, 0, 8, 12, 2, 13, 7, 1, 4, 10, 5>>,
                 <<10, 2, 8, 4, 7, 6, 1, 5, 15, 11, 9, 14, 3, 12, 13, 0>> >>

\* the mixing function G on the work vector v (indices 1..16), words x and y
BlakeG(v, a, b, c, d, x, y) ==
    Strict(WAdd3(v[a], v[b], x), LAMBDA a1 :
    Strict(WXor(v[d], a1), LAMBDA d0 :
    Strict(WAdd(v[c], WRotr16(d0)), LAMBDA c1 :
    Strict(WXor(v[b], c1), LAMBDA b0 :
    Strict(WAdd3(a1, WRotr(b0, 4096), y), LAMBDA a2 :
    Strict(WXor(WRotr16(d0), a2), LAMBDA d1 :
    Strict(WAdd(c1, WRotr(d1, 256)), LAMBDA c2 :
    Strict(WXor(WRotr(b0, 4096), c2), LAMBDA b1 :
        [v EXCEPT ![a] = a2, ![b] = WRotr(b1, 128), ![c] = c2, ![d] = WRotr(d1, 256)]))))))))

\* one round: G on the four columns, then on the four diagonals
BlakeRound(v, m, r) ==
    LET s == BlakeSigma[r]
    IN  Strict(BlakeG(v,  1, 5,  9, 13, m[s[1] + 1],  m[s[2] + 1]),  LAMBDA v1 :
        Strict(BlakeG(v1, 2, 6, 10, 14, m[s[3] + 1],  m[s[4] + 1]),  LAMBDA v2 :
        Strict(BlakeG(v2, 3, 7, 11, 15, m[s[5] + 1],  m[s[6] + 1]),  LAMBDA v3 :
        Strict(BlakeG(v3, 4, 8, 12, 16, m[s[7] + 1],  m[s[8] + 1]),  LAMBDA v4 :
        Strict(BlakeG(v4, 1, 6, 11, 16, m[s[9] + 1],  m[s[10] + 1]), LAMBDA v5 :
        Strict(BlakeG(v5, 2, 7, 12, 13, m[s[11] + 1], m[s[12] + 1]), LAMBDA v6 :
        Strict(BlakeG(v6, 3, 8,  9, 14, m[s[13] + 1], m[s[14] + 1]), LAMBDA v7 :
               BlakeG(v7, 4, 5, 10, 15, m[s[15] + 1], m[s[16] + 1]))))))))

\* rounds r..10
RECURSIVE BlakeRounds(_, _, _)
BlakeRounds(v, m, r) ==
    IF r > 10 THEN v
    ELSE Strict(BlakeRound(v, m, r), LAMBDA w : BlakeRounds(w, m, r + 1))

\* the work vector: the chain value, then the IV with the byte counter t
\* (< 2^16 here) and the last-block flag mixed in
BlakeWork(h, t, final) ==
    [i \in 1..16 |->
        IF i <= 8 THEN h[i]
        ELSE IF i = 13 THEN WXor(BlakeIV[5], <<0, t>>)
        ELSE IF i = 15 /\ final THEN WXor(BlakeIV[7], <<65535, 65535>>)
        ELSE BlakeIV[i - 8]]

\* compression of one 64-byte block: h the chain value, m its 16 words
BlakeCompress(h, m, t, final) ==
    Strict(Tuple16(BlakeWork(h, t, final)), LAMBDA v0 :
    Strict(BlakeRounds(v0, m, 1), LAMBDA v :
        <<WXor(h[1], WXor(v[1], v[9])),  WXor(h[2], WXor(v[2], v[10])),
          WXor(h[3], WXor(v[3], v[11])), WXor(h[4], WXor(v[4], v[12])),
          WXor(h[5], WXor(v[5], v[13])), WXor(h[6], WXor(v[6], v[14])),
          WXor(h[7], WXor(v[7], v[15])), WXor(h[8], WXor(v[8], v[16]))>>))

\* the 16 little-endian words of the block starting at byte offset off, zero padded
BlakeBlock(data, off) ==
    LET byte(k) == IF off + k <= Len(data) THEN data[off + k] ELSE 0
    IN  Tuple16([w \in 1..16 |-> <<byte(4 * w) * 256 + byte(4 * w - 1),
                                   byte(4 * w - 2) * 256 + byte(4 * w - 3)>>])

\* the blocks from byte offset off on; the last one, also when it is full or
\* the data is empty, is compressed with the final flag
RECURSIVE BlakeUpdate(_, _, _)
BlakeUpdate(h, data, off) ==
    IF Len(data) - off <= 64
    THEN Strict(BlakeBlock(data, off), LAMBDA m : BlakeCompress(h, m, Len(data), TRUE))
    ELSE Strict(BlakeBlock(data, off), LAMBDA m :
         Strict(BlakeCompress(h, m, off + 64, FALSE), LAMBDA h1 :
             BlakeUpdate(h1, data, off + 64)))

\* byte k (from 1) of the chain value, its words little-endian
BlakeByte(h, k) ==
    LET w == h[((k - 1) \div 4) + 1]
        j == (k - 1) % 4
    IN  IF j = 0 THEN w[2] % 256
        ELSE IF j = 1 THEN w[2] \div 256
        ELSE IF j = 2 THEN w[1] % 256
        ELSE w[1] \div 256

\* hashlib.blake2s(data, digest_size = n).digest(), for 1 <= n <= 32: the
\* parameter block sets digest length n, no key, fanout 1 and depth 1
Blake2sDigest(data, n) ==
    Strict(<<WXor(BlakeIV[1], <<257, n>>), BlakeIV[2], BlakeIV[3], BlakeIV[4],
             BlakeIV[5], BlakeIV[6], BlakeIV[7], BlakeIV[8]>>, LAMBDA h0 :
    Strict(BlakeUpdate(h0, data, 0), LAMBDA h :
        [k \in 1..n |-> BlakeByte(h, k)]))

\* ------------------------------------------------------------------------
\* base64.b32encode(raw).decode("ascii").rstrip("=").lower()
\* ------------------------------------------------------------------------

\* the lowercased RFC 4648 alphabet: a..z, 2..7
B32Char(d) == IF d < 26 THEN 97 + d ELSE 50 + (d - 26)

\* bit i (0 = most significant bit of the first byte) of the byte string
B32Bit(raw, i) == IF i >= 8 * Len(raw) THEN 0
                  ELSE LET b == raw[(i \div 8) + 1]
                           k == 7 - (i % 8)
                       IN  IF k = 0 THEN b % 2
                           ELSE IF k = 1 THEN (b \div 2) % 2
                           ELSE IF k = 2 THEN (b \div 4) % 2
                           ELSE IF k = 3 THEN (b \div 8) % 2
                           ELSE IF k = 4 THEN (b \div 16) % 2
                           ELSE IF k = 5 THEN (b \div 32) % 2
                           ELSE IF k = 6 THEN (b \div 64) % 2
                           ELSE (b \div 128) % 2

\* every 5 bits give one character; the last group is zero padded and the
\* "=" padding of the encoder is stripped again
B32EncodeLower(raw) ==
    [j \in 1..((8 * Len(raw) + 4) \div 5) |->
        B32Char(16 * B32Bit(raw, 5 * j - 5) + 8 * B32Bit(raw, 5 * j - 4)
                + 4 * B32Bit(raw, 5 * j - 3) + 2 * B32Bit(raw, 5 * j - 2)
                + B32Bit(raw, 5 * j - 1))]


\* ------------------------------------------------------------------------
\* Outcome of a call: a returned value or a raised exception
\* ------------------------------------------------------------------------

Return(v) == [ok |-> TRUE, val |-> v, err |-> <<>>]

Raise(e) == [ok |-> FALSE, val |-> <<>>, err |-> e]

\* the separator "\x1f" and the hyphen "-"
SEP == 31

HYPHEN == 45

\* ------------------------------------------------------------------------
\* hashing.py
\* ------------------------------------------------------------------------

\* hashing.py:8-17; seed and namespace are Python values
_compose_content(seed, namespace) ==
    IF seed.t # "str" \/ Strip(seed.v) = <<>>
    THEN Raise(<<"ValueError", "seed", "seed must be a non-empty string">>)
    ELSE IF namespace.t # "none" /\ (namespace.t # "str" \/ Strip(namespace.v) = <<>>)
    THEN Raise(<<"ValueError", "namespace", "namespace must be a non-empty string when provided">>)
    ELSE IF namespace.t # "none"
    THEN Return(Strip(namespace.v) \o <<SEP>> \o Strip(seed.v))
    ELSE Return(Strip(seed.v))

\* math.ceil(length * 5 / 8) for an integer length >= 1
CeilFiveEighths(length) == (length * 5 + 7) \div 8

Max(a, b) == IF a >= b THEN a ELSE b

Min(a, b) == IF a <= b THEN a ELSE b

\* the digest size build_compact_token asks of blake2s
CompactDigestSize(length) == Max(10, CeilFiveEighths(length))

\* hashlib.blake2s(data, digest_size=n): sizes outside 1..32 are refused
blake2s(data, digest_size) ==
    IF digest_size < 1 \/ digest_size > 32
    THEN Raise(<<"ValueError", "digest_size", "digest_size must be between 1 and 32 bytes">>)
    ELSE Return(Blake2sDigest(data, digest_size))

\* hashing.py:20-33
build_compact_token(seed, length, namespace) ==
    IF length < 1 THEN Raise(<<"ValueError", "length", "length must be >= 1">>)
    ELSE Strict(_compose_content(seed, namespace), LAMBDA content :
             IF ~content.ok THEN content
             ELSE Strict(blake2s(content.val, CompactDigestSize(length)), LAMBDA raw :
                      IF ~raw.ok THEN raw
                      ELSE Return(Take(B32EncodeLower(raw.val), length))))

\* ------------------------------------------------------------------------
\* validation.py
\* ------------------------------------------------------------------------

\* IsComponentChar with the space allowed as well
IsComponentChar_AllowSpace(c) == IsAlnum(c) \/ c = HYPHEN \/ c = 32

\* one character of the class [A-Za-z0-9-]
IsComponentChar(c) == IsAlnum(c) \/ c = HYPHEN

\* _CLIENT_ID_COMPONENT_PATTERN.fullmatch(s) is not None, pattern ^[A-Za-z0-9-]+$
MatchesComponentPattern(s) == s # <<>> /\ \A i \in 1..Len(s) : IsComponentChar(s[i])

\* validation.py:8-27; value is a Python value
validate_client_id_component(value, field) ==
    IF value.t # "str"
    THEN Raise(<<"ValueError", field, "value must be a string">>)
    ELSE LET normalized == Strip(value.v)
         IN  IF normalized = <<>>
             THEN Raise(<<"ValueError", field, "value must not be empty">>)
             ELSE IF ~MatchesComponentPattern(normalized)
             THEN Raise(<<"ValueError", field, "only letters, digits and '-' are allowed">>)
             ELSE Return(Lower(normalized))

\* ------------------------------------------------------------------------
\* facts.py
\* ------------------------------------------------------------------------

\* "mac"
CONN_MAC == <<109, 97, 99>>

\* "bluetooth"
CONN_BT == <<98, 108, 117, 101, 116, 111, 111, 116, 104>>

\* a connection tuple (kind, value)
Conn(kind, value) == [kind |-> kind, value |-> value]

COLON == 58

IsLowerHex(c) == (c >= 48 /\ c <= 57) \/ (c >= 97 /\ c <= 102)

HexVal(c) == IF c <= 57 THEN c - 48 ELSE c - 87

\* "".join(c for c in s if c.isalnum())
RECURSIVE KeepAlnum(_)
KeepAlnum(s) == IF s = <<>> THEN <<>>
                ELSE IF IsAlnum(Head(s)) THEN <<Head(s)>> \o KeepAlnum(Tail(s))
                ELSE KeepAlnum(Tail(s))

\* facts.py:67-73; s is a Python value, the result a Python value (str or None)
_normalize_mac(s) ==
    IF s.t # "str" THEN NoneVal
    ELSE LET raw == Lower(KeepAlnum(s.v))
         IN  IF Len(raw) # 12 \/ \E i \in 1..Len(raw) : ~IsLowerHex(raw[i])
             THEN NoneVal
             ELSE Str([i \in 1..17 |-> IF i % 3 = 0 THEN COLON
                                       ELSE raw[2 * ((i - 1) \div 3) + (i % 3)]])

\* mac.split(":", 1)[0]
RECURSIVE BeforeColon(_)
BeforeColon(s) == IF s = <<>> \/ Head(s) = COLON THEN <<>>
                  ELSE <<Head(s)>> \o BeforeColon(Tail(s))

\* int(digits, 16) for lowercase hex digits
RECURSIVE HexInt(_)
HexInt(digits) == IF digits = <<>> THEN 0
                  ELSE 16 * HexInt(SubSeq(digits, 1, Len(digits) - 1)) + HexVal(digits[Len(digits)])

\* _is_global_mac testing the multicast bit only
_is_global_mac_MulticastBitOnly(mac) ==
    LET first == BeforeColon(mac)
    IN  IF first = <<>> \/ Len(first) > 7 \/ \E i \in 1..Len(first) : ~IsLowerHex(first[i])
        THEN FALSE
        ELSE HexInt(first) % 2 = 0

\* facts.py:76-81; mac is a str (the callers pass a normalized address);
\* a first field that int(..., 16) refuses gives False
_is_global_mac(mac) ==
    LET first == BeforeColon(mac)
    IN  IF first = <<>> \/ Len(first) > 7 \/ \E i \in 1..Len(first) : ~IsLowerHex(first[i])
        THEN FALSE
        ELSE LET n == HexInt(first)
             IN  (n % 2 = 0) /\ ((n \div 2) % 2 = 0)

ZERO_MAC == [i \in 1..17 |-> IF i % 3 = 0 THEN COLON ELSE 48]

FF_MAC == [i \in 1..17 |-> IF i % 3 = 0 THEN COLON ELSE 102]

\* `value or ""`: None and the empty string are falsy
OrEmpty(value) == IF value.t = "none" \/ (value.t = "str" /\ value.v = <<>>)
                  THEN Str(<<>>) ELSE value

\* `not kind`
Falsy(value) == value.t = "none" \/ (value.t = "str" /\ value.v = <<>>)

\* NormalizeOne without the test for the two placeholder addresses
NormalizeOne_KeepPlaceholders(c) ==
    LET mac == _normalize_mac(OrEmpty(c.value))
    IN  IF Falsy(c.kind) \/ mac.t # "str" THEN {}
        ELSE IF c.kind = Str(CONN_MAC)
        THEN (IF _is_global_mac(mac.v) THEN {Conn(CONN_MAC, mac.v)} ELSE {})
        ELSE IF c.kind = Str(CONN_BT) THEN {Conn(CONN_BT, mac.v)}
        ELSE {}

\* facts.py:86-96, one pass of the loop: what the tuple (kind, value) adds to `out`
NormalizeOne(c) ==
    LET mac == _normalize_mac(OrEmpty(c.value))
    IN  IF Falsy(c.kind) \/ mac.t # "str" THEN {}
        ELSE IF mac.v \in {ZERO_MAC, FF_MAC} THEN {}
        ELSE IF c.kind = Str(CONN_MAC)
        THEN (IF _is_global_mac(mac.v) THEN {Conn(CONN_MAC, mac.v)} ELSE {})
        ELSE IF c.kind = Str(CONN_BT) THEN {Conn(CONN_BT, mac.v)}
        ELSE {}

\* facts.py:84-97 without the final list(out): the set `out`.
\* conns is a set of tuples (kind, value) of Python values
NormalizedSet(conns) == UNION {NormalizeOne(c) : c \in conns}

\* all sequences that list the elements of the finite set S once each
RECURSIVE Orderings(_)
Orderings(S) == IF S = {} THEN {<<>>}
                ELSE UNION {{<<e>> \o r : r \in Orderings(S \ {e})} : e \in S}

\* facts.py:84-97: list(out) has the elements of the set in an order the
\* interpreter chooses, so the possible return values are all orderings
_normalize_connections(conns) == Orderings(NormalizedSet(conns))

\* The environment the probes read, env:
\*   runtime   what _detect_runtime() returns
\*   serial    what the serial probe of the platform finds (a str or None)
\*   net       the raw address strings of the platform's network source
\*             (/sys/class/net/*/address, networksetup, getmac, WLAN.config)
\*   bt        the raw address strings of its Bluetooth source, in file order
\*   bt_public whether `btmgmt info` reports a public address (Linux)
\*   host      the outcome of socket.gethostname()

RUNTIMES == {"MicroPython", "Linux", "Darwin", "Windows"}

\* the addresses among raw (a set of str) that normalize, as (kind, mac) tuples;
\* with needGlobal only the globally administered unicast ones
Probed(kind, raw, needGlobal) ==
    {Conn(Str(kind), _normalize_mac(Str(r))) : r \in
        {r \in raw : LET mac == _normalize_mac(Str(r))
                     IN  mac.t = "str" /\ (needGlobal => _is_global_mac(mac.v))}}

SeqRange(q) == {q[i] : i \in 1..Len(q)}

\* facts.py:117: the interfaces _conns_mpy asks for, STA_IF and AP_IF
WLAN_INTERFACES == 2

\* the addresses these interfaces may hold on a machine whose network source
\* holds the addresses net
WlanAddresses(net) ==
    {w \in SUBSET net : Cardinality(w) = Min(WLAN_INTERFACES, Cardinality(net))}

\* facts.py:109-132: the sets _conns_mpy may return
_conns_mpy(env) == {Probed(CONN_MAC, w, TRUE) : w \in WlanAddresses(env.net)}

\* facts.py:150-191
_conns_linux(env) ==
    Probed(CONN_MAC, env.net, TRUE)
    \cup (IF env.bt_public THEN Probed(CONN_BT, SeqRange(env.bt), FALSE) ELSE {})

\* the first entry of q that normalizes to a global address, if any (the loop
\* of facts.py:233-239 stops at it)
RECURSIVE FirstGlobal(_)
FirstGlobal(q) ==
    IF q = <<>> THEN {}
    ELSE LET mac == _normalize_mac(Str(Head(q)))
         IN  IF mac.t = "str" /\ _is_global_mac(mac.v) THEN {Head(q)}
             ELSE FirstGlobal(Tail(q))

\* facts.py:219-242
_conns_macos(env) ==
    Probed(CONN_MAC, env.net, TRUE) \cup Probed(CONN_BT, FirstGlobal(env.bt), TRUE)

\* facts.py:258-282
_conns_windows(env) ==
    Probed(CONN_MAC, env.net, TRUE) \cup Probed(CONN_BT, SeqRange(env.bt), TRUE)

\* the serial sources a serial probe falls back to when the first one
\* (product_serial, ioreg, powershell, machine.unique_id) gives no serial, in
\* program order: facts.py:197-198 and 207 (_serial_linux), facts.py:294
\* (_serial_windows)
FallbackSources(runtime) ==
    IF runtime = "Linux" THEN <<"devicetree", "proc-device-tree", "cpuinfo">>
    ELSE IF runtime = "Windows" THEN <<"wmic bios">>
    ELSE <<>>

\* what the i-th fallback source of a machine holds
FallbackSerial(e, i) ==
    IF i <= Len(e.serial_fallback) THEN e.serial_fallback[i] ELSE NoneVal

\* the first serial of q, None when q holds none
RECURSIVE FirstSerial(_)
FirstSerial(q) ==
    IF q = <<>> THEN NoneVal
    ELSE IF Head(q) # NoneVal THEN Head(q)
    ELSE FirstSerial(Tail(q))

\* facts.py:194-216, 245-255, 285-300, 135-147
_serial(env) ==
    FirstSerial(<<env.serial>> \o [i \in 1..Len(FallbackSources(env.runtime)) |->
                                      FallbackSerial(env, i)])

\* facts.py:21-32: the serial probe of the detected platform
ProbedSerial(env) == IF env.runtime \in RUNTIMES THEN _serial(env) ELSE NoneVal

\* facts.py:34-45: the sets the connection probe of the detected platform may
\* give
ProbedConnections(env) ==
    IF env.runtime = "MicroPython" THEN _conns_mpy(env)
    ELSE IF env.runtime = "Linux" THEN {_conns_linux(env)}
    ELSE IF env.runtime = "Darwin" THEN {_conns_macos(env)}
    ELSE IF env.runtime = "Windows" THEN {_conns_windows(env)}
    ELSE {{}}

\* facts.py:10-47: the values collect_device_facts() may return
collect_device_facts(env) ==
    {[serial_number |-> ProbedSerial(env), connections |-> l] :
        l \in UNION {_normalize_connections(c) : c \in ProbedConnections(env)}}

\* ------------------------------------------------------------------------
\* client_id.py
\* ------------------------------------------------------------------------

DEFAULT_MAX_CLIENT_ID_LENGTH == 23

\* TypeRank with bluetooth ranked before mac
TypeRank_BluetoothFirst(kind) == IF kind = CONN_BT THEN 0 ELSE IF kind = CONN_MAC THEN 1 ELSE 2

\* client_id.py:26, the sort key of a connection
TypeRank(kind) == IF kind = CONN_MAC THEN 0 ELSE IF kind = CONN_BT THEN 1 ELSE 2

KeyLess(a, b) ==
    \/ TypeRank(a.kind) < TypeRank(b.kind)
    \/ TypeRank(a.kind) = TypeRank(b.kind) /\ StrLess(a.value, b.value)

\* sorted(): c goes behind every element whose key is not greater (stable)
RECURSIVE InsertSorted(_, _)
InsertSorted(q, c) ==
    IF q = <<>> THEN <<c>>
    ELSE IF KeyLess(c, Head(q)) THEN <<c>> \o q
    ELSE <<Head(q)>> \o InsertSorted(Tail(q), c)

RECURSIVE SortedFrom(_, _)
SortedFrom(done, rest) ==
    IF rest = <<>> THEN done ELSE SortedFrom(InsertSorted(done, Head(rest)), Tail(rest))

\* client_id.py:24-27
SortedConnections(connections) == SortedFrom(<<>>, connections)

\* client_id.py:24-29: the first connection in sorted order with a non-blank value
RECURSIVE FirstNonBlank(_)
FirstNonBlank(q) ==
    IF q = <<>> THEN <<>>
    ELSE IF Strip(Head(q).value) # <<>> THEN <<Head(q)>>
    ELSE FirstNonBlank(Tail(q))

\* "sn:", "host:", "host:unknown"
SN_PREFIX == <<115, 110, 58>>

HOST_PREFIX == <<104, 111, 115, 116, 58>>

HOST_UNKNOWN == <<104, 111, 115, 116, 58, 117, 110, 107, 110, 111, 119, 110>>

\* resolve_device_fingerprint with the host name tried before the connections
resolve_device_fingerprint_HostFirst(serial_number, connections, host) ==
    IF serial_number.t = "str" /\ Strip(serial_number.v) # <<>>
    THEN SN_PREFIX \o Lower(Strip(serial_number.v))
    ELSE IF host.ok /\ Lower(Strip(host.val)) # <<>>
    THEN HOST_PREFIX \o Lower(Strip(host.val))
    ELSE LET hit == FirstNonBlank(SortedConnections(connections))
         IN  IF hit # <<>>
             THEN hit[1].kind \o <<COLON>> \o Lower(Strip(hit[1].value))
             ELSE HOST_UNKNOWN

\* client_id.py:12-40; serial_number a Python value, connections a sequence of
\* (kind, value) tuples of str, host the outcome of socket.gethostname()
resolve_device_fingerprint(serial_number, connections, host) ==
    IF serial_number.t = "str" /\ Strip(serial_number.v) # <<>>
    THEN SN_PREFIX \o Lower(Strip(serial_number.v))
    ELSE LET hit == FirstNonBlank(SortedConnections(connections))
         IN  IF hit # <<>>
             THEN hit[1].kind \o <<COLON>> \o Lower(Strip(hit[1].value))
             ELSE IF host.ok /\ Lower(Strip(host.val)) # <<>>
             THEN HOST_PREFIX \o Lower(Strip(host.val))
             ELSE HOST_UNKNOWN

\* "mqtt-client", the namespace of client_id.py:78
NAMESPACE == <<109, 113, 116, 116, 45, 99, 108, 105, 101, 110, 116>>

\* client_id.py:73-75
CompositeSeed(fingerprint, app_name_norm, instance_norm) ==
    IF instance_norm.t # "none"
    THEN fingerprint \o <<SEP>> \o app_name_norm \o <<SEP>> \o instance_norm.v
    ELSE fingerprint \o <<SEP>> \o app_name_norm

\* HashLength without the upper limit of 12
HashLength_NoCeiling(max_length) == Max(8, max_length - 4)

\* HashLength that ignores max_length
HashLength_AlwaysTwelve(max_length) == 12

\* client_id.py:77
HashLength(max_length) == Min(12, Max(8, max_length - 4))

\* ComposeIdentifier with the separator left out of the budget and no final clamp
ComposeIdentifier_NoSeparatorBudget(app_name_norm, suffix, max_length) ==
    LET prefix_budget == max_length - Len(suffix)
    IN  IF prefix_budget <= 0 THEN Take(suffix, max_length)
        ELSE Take(app_name_norm, prefix_budget) \o <<HYPHEN>> \o suffix

\* client_id.py:80-88
ComposeIdentifier(app_name_norm, suffix, max_length) ==
    LET prefix_budget == max_length - Len(suffix) - 1
    IN  IF prefix_budget <= 0 THEN Take(suffix, max_length)
        ELSE LET prefix == Take(app_name_norm, prefix_budget)
             IN  IF prefix = <<>> THEN Take(suffix, max_length)
                 ELSE Take(prefix \o <<HYPHEN>> \o suffix, max_length)

\* a list argument
List(q) == [t |-> "list", v |-> q]

\* the outcome of a call of build_auto_client_id, with what it did on the way:
\*   calls        the functions invoked after validation, in order
\*   serial_number, connections   the facts handed to the resolver
\*   fingerprint, seed, suffix    the intermediate values
Outcome(r, calls, serial, conns, fingerprint, seed, suffix) ==
    [ok |-> r.ok, val |-> r.val, err |-> r.err, calls |-> calls,
     serial_number |-> serial, connections |-> conns,
     fingerprint |-> fingerprint, seed |-> seed, suffix |-> suffix]

\* build_auto_client_id with the probe run before the arguments are validated
build_auto_client_id_ProbeFirst(a, host, probe) ==
    LET app == validate_client_id_component(a.app_name, "app_name")
        inst == IF a.instance_id.t # "none"
                THEN validate_client_id_component(a.instance_id, "instance_id")
                ELSE Return(<<>>)
        instance_norm == IF a.instance_id.t # "none" THEN Str(inst.val) ELSE NoneVal
        probing == a.serial_number.t = "none" /\ a.connections.t = "none"
        serial == IF probing THEN probe.serial_number ELSE a.serial_number
        conns == IF probing THEN probe.connections
                 ELSE IF a.connections.t = "none" THEN <<>> ELSE a.connections.v
        probed == IF probing THEN <<"collect_device_facts">> ELSE <<>>
        calls == probed \o <<"resolve_device_fingerprint", "build_compact_token">>
    IN  IF ~app.ok THEN Outcome(app, probed, NoneVal, <<>>, <<>>, <<>>, <<>>)
        ELSE IF ~inst.ok THEN Outcome(inst, probed, NoneVal, <<>>, <<>>, <<>>, <<>>)
        ELSE IF a.max_length < 8
        THEN Outcome(Raise(<<"ValueError", "max_length", "max_length must be >= 8">>),
                     probed, NoneVal, <<>>, <<>>, <<>>, <<>>)
        ELSE Strict(resolve_device_fingerprint(serial, conns, host), LAMBDA fingerprint :
             Strict(CompositeSeed(fingerprint, app.val, instance_norm), LAMBDA seed :
             Strict(build_compact_token(Str(seed), HashLength(a.max_length), Str(NAMESPACE)),
                    LAMBDA suffix :
                 IF ~suffix.ok
                 THEN Outcome(suffix, calls, serial, conns, fingerprint, seed, <<>>)
                 ELSE Strict(Return(ComposeIdentifier(app.val, suffix.val, a.max_length)),
                             LAMBDA r :
                          Outcome(r, calls, serial, conns, fingerprint, seed, suffix.val)))))

\* client_id.py:43-88.  a holds the arguments (Python values, max_length an
\* int); host is the outcome of socket.gethostname() and probe the value that
\* collect_device_facts() returns in the environment of the call
build_auto_client_id(a, host, probe) ==
    LET app == validate_client_id_component(a.app_name, "app_name")
        inst == IF a.instance_id.t # "none"
                THEN validate_client_id_component(a.instance_id, "instance_id")
                ELSE Return(<<>>)
        instance_norm == IF a.instance_id.t # "none" THEN Str(inst.val) ELSE NoneVal
        probing == a.serial_number.t = "none" /\ a.connections.t = "none"
        serial == IF probing THEN probe.serial_number ELSE a.serial_number
        conns == IF probing THEN probe.connections
                 ELSE IF a.connections.t = "none" THEN <<>> ELSE a.connections.v
        calls == (IF probing THEN <<"collect_device_facts">> ELSE <<>>)
                 \o <<"resolve_device_fingerprint", "build_compact_token">>
    IN  IF ~app.ok THEN Outcome(app, <<>>, NoneVal, <<>>, <<>>, <<>>, <<>>)
        ELSE IF ~inst.ok THEN Outcome(inst, <<>>, NoneVal, <<>>, <<>>, <<>>, <<>>)
        ELSE IF a.max_length < 8
        THEN Outcome(Raise(<<"ValueError", "max_length", "max_length must be >= 8">>),
                     <<>>, NoneVal, <<>>, <<>>, <<>>, <<>>)
        ELSE Strict(resolve_device_fingerprint(serial, conns, host), LAMBDA fingerprint :
             Strict(CompositeSeed(fingerprint, app.val, instance_norm), LAMBDA seed :
             Strict(build_compact_token(Str(seed), HashLength(a.max_length), Str(NAMESPACE)),
                    LAMBDA suffix :
                 IF ~suffix.ok
                 THEN Outcome(suffix, calls, serial, conns, fingerprint, seed, <<>>)
                 ELSE Strict(Return(ComposeIdentifier(app.val, suffix.val, a.max_length)),
                             LAMBDA r :
                          Outcome(r, calls, serial, conns, fingerprint, seed, suffix.val)))))

\* ------------------------------------------------------------------------
\* Inputs of the model: strings as code points
\* ------------------------------------------------------------------------

\* "agent", "-a", "ab-cd", " My-App1 ", "b", "c", "bad name!", "  "
S_agent == <<97, 103, 101, 110, 116>>

S_lead == <<45, 97>>

S_abcd == <<97, 98, 45, 99, 100>>

S_myapp == <<32, 77, 121, 45, 65, 112, 112, 49, 32>>

S_b == <<98>>

S_c == <<99>>

S_bad == <<98, 97, 100, 32, 110, 97, 109, 101, 33>>

S_blank == <<32, 32>>

\* "worker1", "x y"
S_worker1 == <<119, 111, 114, 107, 101, 114, 49>>

S_xy == <<120, 32, 121>>

\* "serial-client", "ABC", "a\x1fb", "a", "SN-1"
S_serial == <<115, 101, 114, 105, 97, 108, 45, 99, 108, 105, 101, 110, 116>>

S_ABC == <<65, 66, 67>>

S_a_sep_b == <<97, 31, 98>>

S_a == <<97>>

S_sn1 == <<83, 78, 45, 49>>

\* " AA", "aa", "usb", "wifi"
S_AA == <<32, 65, 65>>

S_aa == <<97, 97>>

S_usb == <<117, 115, 98>>

S_wifi == <<119, 105, 102, 105>>

\* "11:22:33:44:55:66", "aa:bb:cc:dd:ee:ff"
M_bt == <<49, 49, 58, 50, 50, 58, 51, 51, 58, 52, 52, 58, 53, 53, 58, 54, 54>>

M_aabb == <<97, 97, 58, 98, 98, 58, 99, 99, 58, 100, 100, 58, 101, 101, 58, 102, 102>>

\* raw addresses: "A8-BB-CC-DD-EE-FF" (global), "02:11:22:33:44:55" (locally
\* administered), "01:00:5e:00:00:01" (multicast), "FF:FF:FF:FF:FF:FF",
\* "0423.4567.89ab" (global, dotted), and three that are no address:
\* "a8:bb:cc:dd:ee", "a8:bb:cc:dd:ee:fg", "a8:bb:cc:dd:ee:ff:00"
R_global == <<65, 56, 45, 66, 66, 45, 67, 67, 45, 68, 68, 45, 69, 69, 45, 70, 70>>

R_local == <<48, 50, 58, 49, 49, 58, 50, 50, 58, 51, 51, 58, 52, 52, 58, 53, 53>>

R_multicast == <<48, 49, 58, 48, 48, 58, 53, 101, 58, 48, 48, 58, 48, 48, 58, 48, 49>>

R_ff == <<70, 70, 58, 70, 70, 58, 70, 70, 58, 70, 70, 58, 70, 70, 58, 70, 70>>

R_dotted == <<48, 52, 50, 51, 46, 52, 53, 54, 55, 46, 56, 57, 97, 98>>

R_short == <<97, 56, 58, 98, 98, 58, 99, 99, 58, 100, 100, 58, 101, 101>>

R_nonhex == <<97, 56, 58, 98, 98, 58, 99, 99, 58, 100, 100, 58, 101, 101, 58, 102, 103>>

R_long == <<97, 56, 58, 98, 98, 58, 99, 99, 58, 100, 100, 58, 101, 101, 58, 102, 102, 58, 48, 48>>

\* host names "Host-A", " PC-b "
S_hostA == <<72, 111, 115, 116, 45, 65>>

S_hostB == <<32, 80, 67, 45, 98, 32>>

\* "same-seed", "ns", " x "
S_same_seed == <<115, 97, 109, 101, 45, 115, 101, 101, 100>>

S_ns == <<110, 115>>

S_x == <<32, 120, 32>>

\* socket.gethostname() failing
HostFails == Raise(<<"OSError", "gethostname", "lookup failed">>)

Env(runtime, serial, net, bt, bt_public, host) ==
    [runtime |-> runtime, serial |-> serial, serial_fallback |-> <<>>, net |-> net,
     bt |-> bt, bt_public |-> bt_public, host |-> host]

\* the machine e with the fallback serial sources holding q
WithFallback(e, q) == [e EXCEPT !.serial_fallback = q]

\* a Linux machine with a zero, a global and a local address and a public
\* Bluetooth controller; an unknown platform whose host name lookup fails;
\* a Darwin machine whose only address is the zero placeholder; a Windows
\* machine on which neither powershell nor wmic gives a serial
EnvSet == {Env("Linux", NoneVal, {ZERO_MAC, R_global, R_local}, <<M_bt>>, TRUE, Return(S_hostA)),
           Env("Unknown", Str(S_sn1), {}, <<>>, FALSE, HostFails),
           Env("Darwin", NoneVal, {ZERO_MAC}, <<>>, FALSE, Return(S_hostB)),
           Env("Windows", NoneVal, {}, <<>>, FALSE, Return(S_hostB))}

Args(app, inst, ml, sn, conns) ==
    [app_name |-> app, instance_id |-> inst, max_length |-> ml,
     serial_number |-> sn, connections |-> conns]

\* the largest max_length of the composition inputs (besides the default)
MaxMaxLength == 18

MaxLengths == (7..MaxMaxLength) \cup {DEFAULT_MAX_CLIENT_ID_LENGTH}

\* the (serial_number, connections) arguments a caller passes
FactArgs ==
    {<<NoneVal, NoneVal>>,
     <<NoneVal, List(<<>>)>>,
     <<NotAStr, NoneVal>>,
     <<Str(S_ABC), List(<<>>)>>,
     <<Str(S_a_sep_b), NoneVal>>,
     <<Str(S_a), NoneVal>>,
     <<NoneVal, List(<<Conn(CONN_MAC, ZERO_MAC)>>)>>,
     <<NoneVal, List(<<Conn(CONN_BT, M_bt), Conn(CONN_MAC, M_aabb)>>)>>,
     <<NoneVal, List(<<Conn(S_usb, S_aa), Conn(S_wifi, S_aa)>>)>>,
     <<Str(S_blank), List(<<Conn(CONN_MAC, <<>>), Conn(CONN_BT, S_AA)>>)>>}

\* the call of tests/test_client_id_exposure.py:13-18
ExampleArgs == Args(Str(S_agent), Str(S_worker1), DEFAULT_MAX_CLIENT_ID_LENGTH,
                    Str(S_serial), List(<<>>))

\* composition: names and lengths vary, the facts are those of the test
CompositionArgs ==
    {Args(Str(app), NoneVal, ml, Str(S_serial), List(<<>>)) :
        app \in {S_agent, S_lead, S_abcd, S_myapp}, ml \in MaxLengths}
    \cup {ExampleArgs}

\* facts: the facts vary
FactsArgs ==
    {Args(Str(app), inst, DEFAULT_MAX_CLIENT_ID_LENGTH, f[1], f[2]) :
        app \in {S_b, S_c}, inst \in {NoneVal, Str(S_c)}, f \in FactArgs}

\* refused arguments
InvalidArgs ==
    {Args(app, NoneVal, DEFAULT_MAX_CLIENT_ID_LENGTH, NoneVal, NoneVal) :
        app \in {Str(S_bad), Str(S_blank), NotAStr}}
    \cup {Args(Str(S_agent), inst, DEFAULT_MAX_CLIENT_ID_LENGTH, NoneVal, NoneVal) :
            inst \in {Str(S_xy), Str(<<>>), NotAStr}}
    \cup {Args(Str(S_agent), NoneVal, 7, NoneVal, NoneVal)}

ArgSet == CompositionArgs \cup FactsArgs \cup InvalidArgs

\* calls whose serial number is "a" or "a\x1fb": the names, the instance id and
\* the serial number vary from one call to the next
SeedArgs == {a \in FactsArgs : a.serial_number \in {Str(S_a), Str(S_a_sep_b)}}

\* an environment with the sources in `failed` failing and the address files
\* `unreadable` unreadable
FailingEnv(e, failed, unreadable) ==
    [runtime |-> e.runtime, serial |-> e.serial, serial_fallback |-> e.serial_fallback,
     net |-> e.net, bt |-> e.bt, bt_public |-> e.bt_public, host |-> e.host,
     failed |-> failed, unreadable |-> unreadable]

\* the names of the serial sources of a platform
SerialSources(runtime) ==
    {"serial"} \cup {FallbackSources(runtime)[i] : i \in 1..Len(FallbackSources(runtime))}

\* what the fallback serial sources of e give while the sources e.failed fail
EffectiveFallback(e) ==
    [i \in 1..Len(e.serial_fallback) |->
        IF i <= Len(FallbackSources(e.runtime)) /\ FallbackSources(e.runtime)[i] \in e.failed
        THEN NoneVal ELSE e.serial_fallback[i]]

\* EffectiveEnv with one try block around the serial and the connection probes
EffectiveEnv_SharedTry(e) ==
    LET broken == SerialSources(e.runtime) \cap e.failed # {}
    IN  WithFallback(
            Env(e.runtime,
                IF broken THEN NoneVal ELSE e.serial,
                IF broken \/ "net" \in e.failed THEN {}
                ELSE IF "net-file" \in e.failed THEN e.net \ e.unreadable ELSE e.net,
                IF broken \/ "bt" \in e.failed THEN <<>> ELSE e.bt,
                IF "btmgmt" \in e.failed THEN FALSE ELSE e.bt_public,
                e.host),
            IF broken THEN <<>> ELSE e.serial_fallback)

\* what the probes get to see: every handler turns the failure of its source
\* into no data.  facts.py:21-32 and the handlers of the serial probes (no
\* serial from that source, the next source is asked: facts.py:205-206, 214,
\* 291-292, 299); facts.py:100-106, 152-164, 221-230, 260-270 (no addresses);
\* facts.py:156-159, 118-127 (the interface is skipped); facts.py:165-190,
\* 231-241, 272-281 (no Bluetooth address); facts.py:168-169 (the output ""
\* holds no "public address")
EffectiveEnv(e) ==
    WithFallback(
        Env(e.runtime,
            IF "serial" \in e.failed THEN NoneVal ELSE e.serial,
            IF "net" \in e.failed THEN {}
            ELSE IF "net-file" \in e.failed THEN e.net \ e.unreadable ELSE e.net,
            IF "bt" \in e.failed THEN <<>> ELSE e.bt,
            IF "btmgmt" \in e.failed THEN FALSE ELSE e.bt_public,
            e.host),
        EffectiveFallback(e))

\* ------------------------------------------------------------------------
\* State
\* ------------------------------------------------------------------------

VARIABLES
    env,     \* the environment: platform, probe sources, host name
    args,    \* the arguments the caller passes to build_auto_client_id
    last,    \* the latest invocation of build_auto_client_id
    prev,    \* the invocation before it
    facts,   \* what the latest collect_device_facts() returned
    call,    \* a direct call of one of the component functions
    result,  \* what that call returned
    probe    \* the call of collect_device_facts() in progress

vars == <<env, args, last, prev, facts, call, result, probe>>

Idle == [done |-> FALSE]

NoFacts == [collected |-> FALSE, serial_number |-> NoneVal, connections |-> <<>>]

Collected(p) == [collected |-> TRUE, serial_number |-> p.serial_number,
                 connections |-> p.connections]

NoCall == [fn |-> "none"]

\* no call of collect_device_facts() is in progress
NoProbe == [pc |-> "idle"]

\* what a probe has seen before it has read any source
Unread(runtime) ==
    [runtime |-> runtime, serial |-> NoneVal, serial_fallback |-> <<>>, net |-> {},
     bt |-> <<>>, bt_public |-> FALSE]

\* what the sources of the environment hold for a probe that reads them now
Visible(e) == IF "failed" \in DOMAIN e THEN EffectiveEnv(e) ELSE e

\* the sources among srcs that fail now
FailedNow(e, srcs) == IF "failed" \in DOMAIN e THEN e.failed \cap srcs ELSE {}

\* facts.py:17-19: a call of collect_device_facts() by `caller` has detected
\* the platform and read nothing yet.
\*   pc      the source it reads next, or "return" when none is left
\*   seen    the platform and what each source held when the probe read it
\*   failed  the sources that failed when the probe read them
ProbeBegun(caller) ==
    [pc |-> IF env.runtime \in RUNTIMES THEN "serial" ELSE "return",
     caller |-> caller, seen |-> Unread(env.runtime), failed |-> {}]

\* the serial sources that _serial_linux opens on the machine e: each file
\* is opened when the files before it gave no serial (facts.py:194-216)
ConsultedFiles(e) ==
    {"serial"} \cup
    {FallbackSources("Linux")[i] : i \in
        {k \in 1..Len(FallbackSources("Linux")) :
            e.serial = NoneVal /\ \A j \in 1..(k - 1) : FallbackSerial(e, j) = NoneVal}}

\* facts.py:21-32: the serial probe of the platform reads its files
\* (_serial_linux, all of them within the step) or waits for its command
\* (ioreg, powershell); on Windows a powershell that gives no serial hands
\* over to `wmic bios` (facts.py:287-293)
ReadSerial ==
    /\ probe.pc = "serial"
    /\ probe' = [probe EXCEPT !.pc = IF probe.seen.runtime = "Windows"
                                        /\ Visible(env).serial = NoneVal
                                     THEN "wmic bios" ELSE "net",
                              !.seen.serial = Visible(env).serial,
                              !.seen.serial_fallback =
                                  IF probe.seen.runtime = "Linux"
                                  THEN Visible(env).serial_fallback ELSE <<>>,
                              !.failed = @ \cup FailedNow(env,
                                  IF probe.seen.runtime = "Linux"
                                  THEN ConsultedFiles(Visible(env)) ELSE {"serial"})]
    /\ UNCHANGED <<env, args, last, prev, facts, call, result>>

\* facts.py:293-300: _serial_windows waits for `wmic bios get serialnumber`,
\* a serial source of its own
ReadSerialWmic ==
    /\ probe.pc = "wmic bios"
    /\ probe' = [probe EXCEPT !.pc = "net",
                              !.seen.serial_fallback = <<FallbackSerial(Visible(env), 1)>>,
                              !.failed = @ \cup FailedNow(env, {"wmic bios"})]
    /\ UNCHANGED <<env, args, last, prev, facts, call, result>>

\* facts.py:152-164, 221-230, 260-270, 111-130: the connection probe reads the
\* network source
ReadNet ==
    /\ probe.pc = "net"
    /\ probe' = [probe EXCEPT !.pc = IF probe.seen.runtime = "Linux" THEN "btmgmt"
                                     ELSE IF probe.seen.runtime = "MicroPython" THEN "return"
                                     ELSE "bt",
                              !.seen.net = Visible(env).net,
                              !.failed = @ \cup FailedNow(env, {"net", "net-file"})]
    /\ UNCHANGED <<env, args, last, prev, facts, call, result>>

\* facts.py:168-169: _conns_linux waits for `btmgmt info`
ReadBtmgmt ==
    /\ probe.pc = "btmgmt"
    /\ probe' = [probe EXCEPT !.pc = "bt",
                              !.seen.bt_public = Visible(env).bt_public,
                              !.failed = @ \cup FailedNow(env, {"btmgmt"})]
    /\ UNCHANGED <<env, args, last, prev, facts, call, result>>

\* facts.py:171-188, 231-241, 272-281: the connection probe reads the
\* Bluetooth source
ReadBt ==
    /\ probe.pc = "bt"
    /\ probe' = [probe EXCEPT !.pc = "return",
                              !.seen.bt = Visible(env).bt,
                              !.failed = @ \cup FailedNow(env, {"bt"})]
    /\ UNCHANGED <<env, args, last, prev, facts, call, result>>

\* facts.py:47: collect_device_facts() returns the serial and the normalized
\* connections to its caller
ProbeReturns ==
    /\ probe.pc = "return"
    /\ \E p \in collect_device_facts(probe.seen) : facts' = Collected(p)
    /\ probe' = [pc |-> "returned", caller |-> probe.caller, failed |-> probe.failed]
    /\ UNCHANGED <<env, args, last, prev, call, result>>

\* the steps of a call of collect_device_facts() in progress, in program order
ProbeSteps == ReadSerial \/ ReadSerialWmic \/ ReadNet \/ ReadBtmgmt \/ ReadBt \/ ProbeReturns

\* the facts the latest probe returned, as collect_device_facts() returns them
ReturnedFacts == [serial_number |-> facts.serial_number, connections |-> facts.connections]

\* ------------------------------------------------------------------------
\* The identifier composer and its environment
\* ------------------------------------------------------------------------

Init ==
    /\ probe = NoProbe
    /\ env \in EnvSet
    /\ args \in ArgSet
    /\ last = Idle
    /\ prev = Idle
    /\ facts = NoFacts
    /\ call = NoCall
    /\ result = NoCall

\* what a call that does not probe passes on as the probe's result
NotProbed == [serial_number |-> NoneVal, connections |-> <<>>]

\* client_id.py:58-67: the call passes the validation and reaches
\* collect_device_facts()
ReachesProbe(a) ==
    /\ a.serial_number.t = "none" /\ a.connections.t = "none"
    /\ validate_client_id_component(a.app_name, "app_name").ok
    /\ a.instance_id.t # "none" =>
          validate_client_id_component(a.instance_id, "instance_id").ok
    /\ a.max_length >= 8

\* a call build_auto_client_id(**args): the whole call when it is refused or
\* the facts are supplied, else the call up to the detection of the platform
\* in collect_device_facts(). A history holds at most two calls, and the
\* second one is a call that does not probe: a probing call meets every
\* machine and every change of it as the first call.
BuildAutoClientId ==
    /\ ~prev.done /\ probe = NoProbe
    /\ last.done => ~ReachesProbe(args)
    /\ IF ReachesProbe(args)
       THEN /\ probe' = ProbeBegun("build_auto_client_id")
            /\ UNCHANGED <<last, prev, facts>>
       ELSE /\ \E out \in {build_auto_client_id(args, env.host, NotProbed)} :
                  /\ last' = [done |-> TRUE, args |-> args, host |-> env.host, out |-> out]
                  /\ facts' = IF out.calls # <<>> /\ out.calls[1] = "collect_device_facts"
                              THEN Collected(NotProbed) ELSE facts
            /\ prev' = last
            /\ UNCHANGED probe
    /\ UNCHANGED <<env, args, call, result>>

\* client_id.py:67-88: with the facts collect_device_facts() returned, the
\* call resolves the fingerprint (reading the host name when it needs it),
\* hashes and composes
BuildAutoClientIdReturns ==
    /\ probe.pc = "returned" /\ probe.caller = "build_auto_client_id"
    /\ \E out \in {build_auto_client_id(args, env.host, ReturnedFacts)} :
          last' = [done |-> TRUE, args |-> args, host |-> env.host, out |-> out]
    /\ prev' = last
    /\ probe' = NoProbe
    /\ UNCHANGED <<env, args, facts, call, result>>

\* between two calls or while a call probes, the machine may change: another
\* host name, other probe sources
EnvironmentChanges ==
    /\ ~prev.done
    /\ \E e \in EnvSet \ {env} : env' = e
    /\ UNCHANGED <<probe, args, last, prev, facts, call, result>>

\* between two calls the caller may pass the same connections in another order
ConnectionsReordered ==
    /\ last.done /\ ~prev.done /\ probe = NoProbe
    /\ args.connections.t = "list"
    /\ \E q \in Orderings({i : i \in 1..Len(args.connections.v)}) :
          /\ q # [i \in 1..Len(q) |-> i]
          /\ args' = [args EXCEPT !.connections =
                         List([i \in 1..Len(q) |-> args.connections.v[q[i]]])]
    /\ UNCHANGED <<probe, env, last, prev, facts, call, result>>

\* between two calls the caller may pass another name, instance id and serial
ArgumentsChange ==
    /\ last.done /\ ~prev.done /\ probe = NoProbe
    /\ args \in SeedArgs
    /\ \E a \in SeedArgs \ {args} : args' = a
    /\ UNCHANGED <<probe, env, last, prev, facts, call, result>>

Next == BuildAutoClientId \/ ProbeSteps \/ BuildAutoClientIdReturns
           \/ EnvironmentChanges \/ ConnectionsReordered \/ ArgumentsChange

Spec == Init /\ [][Next]_vars

\* ------------------------------------------------------------------------
\* Properties of the identifier composer
\* ------------------------------------------------------------------------

\* the latest call returned an identifier
Returned == last.done /\ last.out.ok

\* the validated (trimmed, lowercased) application name of the latest call
AppNorm == validate_client_id_component(last.args.app_name, "app_name").val

\* C1: whenever build_auto_client_id returns (valid app_name, valid or absent
\* instance_id, max_length >= 8, any facts), the identifier is at most
\* max_length characters long.
C1_LengthBound == Returned => Len(last.out.val) <= last.args.max_length

\* a call that had to cut the application name to fit
C1_Witness ==
    /\ Returned
    /\ Len(AppNorm) > last.args.max_length - Len(last.out.suffix) - 1
    /\ last.args.max_length - Len(last.out.suffix) - 1 > 0
    /\ Len(last.out.val) = last.args.max_length

IsLowerAlnum(c) == (c >= 48 /\ c <= 57) \/ (c >= 97 /\ c <= 122)

\* s matches ^[a-z0-9]+(-[a-z0-9]+)*$
MatchesIdentifierPattern(s) ==
    /\ s # <<>>
    /\ \A i \in 1..Len(s) : IsLowerAlnum(s[i]) \/ s[i] = HYPHEN
    /\ s[1] # HYPHEN /\ s[Len(s)] # HYPHEN
    /\ \A i \in 1..(Len(s) - 1) : ~(s[i] = HYPHEN /\ s[i + 1] = HYPHEN)

\* C2: every identifier build_auto_client_id returns matches
\* ^[a-z0-9]+(-[a-z0-9]+)*$: it starts and ends with a letter or digit and has
\* no two adjacent hyphens, for every accepted app_name and max_length >= 8.
C2_Alphabet == Returned => MatchesIdentifierPattern(last.out.val)

\* serial_number or connections was supplied: the call does not probe
Supplied(a) == ~(a.serial_number.t = "none" /\ a.connections.t = "none")

\* the supplied facts decide the fingerprint: a non-blank serial number or a
\* connection with a non-blank address
FactsDecide(a) ==
    \/ a.serial_number.t = "str" /\ Strip(a.serial_number.v) # <<>>
    \/ /\ a.connections.t = "list"
       /\ \E i \in 1..Len(a.connections.v) : Strip(a.connections.v[i].value) # <<>>

\* two recorded calls with the same five arguments, facts supplied
SameSuppliedArgs == last.done /\ prev.done /\ last.args = prev.args /\ Supplied(last.args)

SameOutcome == /\ last.out.ok = prev.out.ok
               /\ last.out.val = prev.out.val
               /\ last.out.err = prev.out.err

\* C3 as stated: two calls with the same (app_name, instance_id, max_length,
\* serial_number, connections), serial_number or connections supplied, return
\* the identical string in whatever environments they run.
C3_SameArgsSameResult == SameSuppliedArgs => SameOutcome

\* C3 amended: they return the identical string when the supplied facts decide
\* the fingerprint (a non-blank serial number or a connection with a non-blank
\* address) or the host name lookup gives the same outcome in both calls.
C3_SameArgsSameResultUnlessHostFallback ==
    SameSuppliedArgs /\ (FactsDecide(last.args) \/ last.host = prev.host) => SameOutcome

\* two calls with the same supplied connection, no serial number, on hosts
\* with different names
C3_Witness ==
    /\ SameSuppliedArgs /\ last.out.ok
    /\ last.args.serial_number.t = "none"
    /\ FactsDecide(last.args)
    /\ last.host.ok /\ ~prev.host.ok

\* ------------------------------------------------------------------------
\* Direct calls of resolve_device_fingerprint
\* ------------------------------------------------------------------------

\* " b", "wlan", "a8:bb:cc:dd:ee:ff"
S_sp_b == <<32, 98>>

S_wlan == <<119, 108, 97, 110>>

M_a8bb == <<97, 56, 58, 98, 98, 58, 99, 99, 58, 100, 100, 58, 101, 101, 58, 102, 102>>

\* the outcomes of socket.gethostname(): two names, a blank name, a failure
ResolveHosts == {Return(S_hostA), Return(S_hostB), Return(S_blank), HostFails}

ResolveSerials == {NoneVal, Str(S_ABC), Str(S_blank), Str(S_sn1), NotAStr}

ResolveLists ==
    {<<>>,
     <<Conn(CONN_MAC, M_aabb), Conn(CONN_BT, M_bt)>>,
     <<Conn(CONN_BT, M_bt), Conn(CONN_MAC, M_aabb)>>,
     <<Conn(CONN_MAC, M_aabb), Conn(CONN_MAC, M_a8bb)>>,
     <<Conn(CONN_MAC, <<>>), Conn(CONN_BT, S_AA)>>,
     <<Conn(S_wlan, S_b), Conn(CONN_BT, S_c), Conn(CONN_MAC, S_blank)>>,
     <<Conn(S_usb, S_aa), Conn(S_wifi, S_aa)>>,
     <<Conn(S_wifi, S_a), Conn(S_usb, S_sp_b)>>,
     <<Conn(CONN_MAC, S_blank), Conn(S_usb, <<>>)>>}

ResolveCalls ==
    {[fn |-> "resolve_device_fingerprint", serial_number |-> s, connections |-> q] :
        s \in ResolveSerials, q \in ResolveLists}

\* a machine whose probes find nothing, with the given host name lookup
BareEnv(host) == Env("Unknown", NoneVal, {}, <<>>, FALSE, host)

InitResolve ==
    /\ probe = NoProbe
    /\ env \in {BareEnv(h) : h \in ResolveHosts}
    /\ args = ExampleArgs
    /\ last = Idle
    /\ prev = Idle
    /\ facts = NoFacts
    /\ call \in ResolveCalls
    /\ result = NoCall

\* a call resolve_device_fingerprint(serial_number, connections)
ResolveDeviceFingerprint ==
    /\ call.fn = "resolve_device_fingerprint"
    /\ result = NoCall
    /\ result' = [fn |-> call.fn,
                  val |-> resolve_device_fingerprint(call.serial_number, call.connections,
                                                     env.host)]
    /\ UNCHANGED <<probe, env, args, last, prev, facts, call>>

NextResolve == ResolveDeviceFingerprint

SpecResolve == InitResolve /\ [][NextResolve]_vars

\* ------------------------------------------------------------------------
\* The fact probe
\* ------------------------------------------------------------------------

\* what the network source of a platform may hold
ProbeNets ==
    {{},
     {R_dotted, R_local},
     {ZERO_MAC, FF_MAC, R_ff},
     {R_global, M_a8bb, R_dotted},
     {R_local, R_multicast, R_short, R_nonhex, R_long},
     {ZERO_MAC, R_global, R_local, R_multicast, R_dotted, R_nonhex}}

\* what its Bluetooth source may hold
ProbeBts == {<<>>, <<M_bt>>, <<R_local, R_global, M_bt>>, <<ZERO_MAC, R_ff, R_short>>}

\* a MicroPython machine has the two interfaces STA_IF and AP_IF
ProbeEnvs ==
    {e \in {Env(rt, NoneVal, net, bt, pub, Return(S_hostA)) :
               rt \in RUNTIMES \cup {"Unknown"}, net \in ProbeNets, bt \in ProbeBts,
               pub \in BOOLEAN} :
        e.runtime = "MicroPython" => Cardinality(e.net) <= WLAN_INTERFACES}

\* "MAC"
S_MAC == <<77, 65, 67>>

\* sets of raw (kind, value) tuples handed to _normalize_connections
NormalizeInputs ==
    {{},
     {Conn(Str(CONN_MAC), Str(ZERO_MAC))},
     {Conn(Str(CONN_MAC), Str(FF_MAC)), Conn(Str(CONN_BT), Str(R_ff))},
     {Conn(Str(CONN_MAC), Str(R_global)), Conn(Str(CONN_MAC), Str(M_a8bb)),
      Conn(Str(CONN_BT), Str(R_global))},
     {Conn(Str(CONN_MAC), Str(R_local)), Conn(Str(CONN_BT), Str(R_local)),
      Conn(Str(CONN_MAC), Str(R_multicast))},
     {Conn(Str(S_usb), Str(R_global)), Conn(Str(S_MAC), Str(R_global)),
      Conn(Str(<<>>), Str(R_global)), Conn(NoneVal, Str(R_global))},
     {Conn(Str(CONN_MAC), NoneVal), Conn(Str(CONN_MAC), Str(<<>>)),
      Conn(Str(CONN_MAC), NotAStr), Conn(Str(CONN_BT), Str(R_nonhex)),
      Conn(Str(CONN_BT), Str(R_short)), Conn(Str(CONN_BT), Str(R_long))},
     {Conn(Str(CONN_MAC), Str(R_dotted)), Conn(Str(CONN_BT), Str(M_bt)),
      Conn(Str(CONN_BT), Str(ZERO_MAC))}}

NormalizeCalls == {[fn |-> "_normalize_connections", conns |-> c] : c \in NormalizeInputs}

InitProbe ==
    /\ probe = NoProbe
    /\ args = ExampleArgs
    /\ last = Idle
    /\ prev = Idle
    /\ facts = NoFacts
    /\ result = NoCall
    /\ \/ env \in ProbeEnvs /\ call = NoCall
       \/ env = BareEnv(HostFails) /\ call \in NormalizeCalls

\* a call collect_device_facts(), up to the detection of the platform
CollectDeviceFacts ==
    /\ call = NoCall
    /\ ~facts.collected /\ probe = NoProbe
    /\ probe' = ProbeBegun("collect_device_facts")
    /\ UNCHANGED <<env, args, last, prev, facts, call, result>>

\* a call _normalize_connections(conns)
NormalizeConnections ==
    /\ call.fn = "_normalize_connections"
    /\ result = NoCall
    /\ \E l \in _normalize_connections(call.conns) : result' = [fn |-> call.fn, val |-> l]
    /\ UNCHANGED <<probe, env, args, last, prev, facts, call>>

NextProbe == CollectDeviceFacts \/ ProbeSteps
                \/ EnvironmentChanges \/ NormalizeConnections

SpecProbe == InitProbe /\ [][NextProbe]_vars

\* ------------------------------------------------------------------------
\* Direct calls of build_compact_token
\* ------------------------------------------------------------------------

\* the largest requested token length
MaxTokenLength == 53

TokenSeeds == {Str(S_same_seed), Str(S_x), Str(S_blank), NotAStr}

TokenNamespaces == {NoneVal, Str(S_ns), Str(S_blank)}

TokenCalls ==
    {[fn |-> "build_compact_token", seed |-> s, length |-> n, namespace |-> ns] :
        s \in TokenSeeds, n \in 0..MaxTokenLength, ns \in TokenNamespaces}

InitToken ==
    /\ probe = NoProbe
    /\ env = BareEnv(HostFails)
    /\ args = ExampleArgs
    /\ last = Idle
    /\ prev = Idle
    /\ facts = NoFacts
    /\ call \in TokenCalls
    /\ result = NoCall

\* a call build_compact_token(seed, length=length, namespace=namespace)
BuildCompactToken ==
    /\ call.fn = "build_compact_token"
    /\ result = NoCall
    /\ \E out \in {build_compact_token(call.seed, call.length, call.namespace)} :
          result' = [fn |-> call.fn, out |-> out]
    /\ UNCHANGED <<probe, env, args, last, prev, facts, call>>

NextToken == BuildCompactToken

SpecToken == InitToken /\ [][NextToken]_vars

\* ------------------------------------------------------------------------
\* Properties of the fingerprint resolver
\* ------------------------------------------------------------------------

\* the rank of a kind in the priority chain: mac 0, bluetooth 1, others 2
C4_Rank(kind) == IF kind = CONN_MAC THEN 0 ELSE IF kind = CONN_BT THEN 1 ELSE 2

\* a comes before b in (type_rank, address)
C4_Before(a, b) ==
    \/ C4_Rank(a.kind) < C4_Rank(b.kind)
    \/ C4_Rank(a.kind) = C4_Rank(b.kind) /\ StrLess(a.value, b.value)

\* the positions of q that hold a non-blank address
C4_NonBlank(q) == {i \in 1..Len(q) : Strip(q[i].value) # <<>>}

\* those of them with the smallest (type_rank, address)
C4_Smallest(q) ==
    {i \in C4_NonBlank(q) : \A j \in C4_NonBlank(q) : ~C4_Before(q[j], q[i])}

\* C4: resolve_device_fingerprint follows the priority chain and never raises:
\* a non-blank serial number gives 'sn:' + the trimmed lowercased serial,
\* whatever the connections; else, if some connection has a non-blank address,
\* '<kind>:<address>' (the address trimmed and lowercased) of a connection with
\* the smallest (type_rank, address) among them, mac 0, bluetooth 1, others 2;
\* else 'host:' + the trimmed lowercased host name when the lookup succeeds
\* with a non-empty name; else, also when the lookup fails, 'host:unknown'.
C4_PriorityChain ==
    result # NoCall /\ result.fn = "resolve_device_fingerprint" =>
        LET s == call.serial_number
            q == call.connections
            h == env.host
        IN  IF s.t = "str" /\ Strip(s.v) # <<>>
            THEN result.val = <<115, 110, 58>> \o Lower(Strip(s.v))
            ELSE IF C4_NonBlank(q) # {}
            THEN \E i \in C4_Smallest(q) :
                     result.val = q[i].kind \o <<58>> \o Lower(Strip(q[i].value))
            ELSE IF h.ok /\ Strip(h.val) # <<>>
            THEN result.val = <<104, 111, 115, 116, 58>> \o Lower(Strip(h.val))
            ELSE result.val = <<104, 111, 115, 116, 58, 117, 110, 107, 110, 111, 119, 110>>

\* a call without a serial number whose list holds a bluetooth entry in front
\* of a mac entry: the mac entry is chosen
C4_Witness ==
    /\ result # NoCall /\ result.fn = "resolve_device_fingerprint"
    /\ call.serial_number.t = "none"
    /\ Len(call.connections) = 2
    /\ call.connections[1].kind = CONN_BT /\ call.connections[2].kind = CONN_MAC
    /\ result.val = CONN_MAC \o <<58>> \o call.connections[2].value

\* p and q hold the same tuples, each as often
IsPermutation(p, q) ==
    /\ Len(p) = Len(q)
    /\ \A i \in 1..Len(p) :
          Cardinality({j \in 1..Len(p) : p[j] = p[i]})
              = Cardinality({j \in 1..Len(q) : q[j] = p[i]})

\* two recorded calls on the same host whose arguments differ at most in the
\* order of the supplied connections
SameUpToOrder ==
    /\ last.done /\ prev.done
    /\ last.host = prev.host
    /\ last.args.connections.t = "list" /\ prev.args.connections.t = "list"
    /\ [last.args EXCEPT !.connections = NoneVal] = [prev.args EXCEPT !.connections = NoneVal]
    /\ IsPermutation(last.args.connections.v, prev.args.connections.v)

\* C5: the fingerprint does not depend on the order of the connections list:
\* for two lists that are permutations of the same tuples, of any kinds,
\* resolve_device_fingerprint returns the same string and build_auto_client_id
\* the same identifier.
C5_OrderIndependent ==
    SameUpToOrder => last.out.fingerprint = prev.out.fingerprint /\ SameOutcome

\* ------------------------------------------------------------------------
\* Properties of the fact probe
\* ------------------------------------------------------------------------

\* six lowercase two-hex-digit octets joined by colons
IsCanonicalAddress(a) ==
    /\ Len(a) = 17
    /\ \A i \in 1..17 : IF i % 3 = 0 THEN a[i] = 58
                        ELSE (a[i] >= 48 /\ a[i] <= 57) \/ (a[i] >= 97 /\ a[i] <= 102)

\* the value of the hex digit c
C6_Digit(c) == IF c <= 57 THEN c - 48 ELSE c - 87

\* bits 0 and 1 of the first octet are clear: the second digit is 0, 4, 8 or c
C6_GlobalUnicast(a) == C6_Digit(a[2]) % 4 = 0

\* the list l of (kind, address) tuples satisfies every normalization rule
C6_Normalized(l) ==
    /\ \A i \in 1..Len(l) :
          /\ l[i].kind \in {CONN_MAC, CONN_BT}
          /\ IsCanonicalAddress(l[i].value)
          /\ l[i].value # [k \in 1..17 |-> IF k % 3 = 0 THEN 58 ELSE 48]
          /\ l[i].value # [k \in 1..17 |-> IF k % 3 = 0 THEN 58 ELSE 102]
          /\ l[i].kind = CONN_MAC => C6_GlobalUnicast(l[i].value)
    /\ \A i, j \in 1..Len(l) : l[i] = l[j] => i = j

\* C6: every connection tuple the fact probe emits (collect_device_facts,
\* through _normalize_connections) satisfies all normalization rules, for any
\* raw probe output: the kind is mac or bluetooth, the address is six lowercase
\* two-hex-digit octets joined by colons, it is neither all zero nor all ff, a
\* mac address has bits 0 and 1 of its first octet clear, and no pair appears
\* twice.
C6_EmittedTuplesNormalized ==
    /\ facts.collected => C6_Normalized(facts.connections)
    /\ result # NoCall /\ result.fn = "_normalize_connections" => C6_Normalized(result.val)

\* a probe whose network source held placeholder, local, multicast and
\* malformed addresses besides global ones, and that emitted two tuples
C6_Witness ==
    /\ facts.collected
    /\ {ZERO_MAC, R_local, R_multicast, R_nonhex} \subseteq env.net
    /\ Len(facts.connections) = 2

\* "mac:00:00:00:00:00:00"
ZeroMacFingerprint == CONN_MAC \o <<58>> \o [k \in 1..17 |-> IF k % 3 = 0 THEN 58 ELSE 48]

\* C7 as stated: a connection ("mac", "00:00:00:00:00:00") never survives,
\* whether it comes from a probe or is passed by the caller as the connections
\* argument: the fingerprint is never 'mac:00:00:00:00:00:00'.
C7_ZeroMacNeverFingerprint == last.done => last.out.fingerprint # ZeroMacFingerprint

\* C7 amended: a connection ("mac", "00:00:00:00:00:00") found by a probe never
\* survives normalization: the facts collect_device_facts returns do not hold
\* it, and a call of build_auto_client_id that probes never resolves the
\* fingerprint 'mac:00:00:00:00:00:00'.
C7_ZeroMacNeverProbed ==
    /\ facts.collected =>
          \A i \in 1..Len(facts.connections) :
              facts.connections[i].value # [k \in 1..17 |-> IF k % 3 = 0 THEN 58 ELSE 48]
    /\ last.done /\ ~Supplied(last.args) => last.out.fingerprint # ZeroMacFingerprint

\* a call that probed a machine whose network source holds the zero address
\* besides a global one, and resolved the global one
C7_Witness ==
    /\ last.done /\ ~Supplied(last.args) /\ last.out.ok
    /\ facts.collected
    /\ env.host = last.host /\ ZERO_MAC \in env.net
    /\ SubSeq(last.out.fingerprint, 1, 4) = CONN_MAC \o <<58>>

\* ------------------------------------------------------------------------
\* Properties of the seed, the token and the composition
\* ------------------------------------------------------------------------

\* the validated instance id of a recorded call, None when absent
InstanceNorm(c) ==
    IF c.args.instance_id.t = "none" THEN NoneVal
    ELSE Str(validate_client_id_component(c.args.instance_id, "instance_id").val)

\* the (fingerprint, app_name, instance_id) triple of a recorded call
Triple(c) ==
    <<c.out.fingerprint, validate_client_id_component(c.args.app_name, "app_name").val,
      InstanceNorm(c)>>

\* C8: two distinct (fingerprint, app_name, instance_id) triples, instance_id
\* possibly absent, the fingerprint derived from any serial number, connection
\* or host name, always give distinct composite seeds, and so give the same
\* identifier only if their compact tokens collide.
C8_DistinctTriplesDistinctSeeds ==
    (last.done /\ prev.done /\ last.out.ok /\ prev.out.ok /\ Triple(last) # Triple(prev))
        => last.out.seed # prev.out.seed

\* a character of the base-32 alphabet a-z, 2-7
IsBase32Char(c) == (c >= 97 /\ c <= 122) \/ (c >= 50 /\ c <= 55)

\* the call is in the domain of C9: a non-blank seed, a namespace that is absent
\* or non-blank, a length of at least 1
C9_Applies ==
    /\ result # NoCall /\ result.fn = "build_compact_token"
    /\ call.seed.t = "str" /\ Strip(call.seed.v) # <<>>
    /\ call.namespace.t = "none" \/ (call.namespace.t = "str" /\ Strip(call.namespace.v) # <<>>)
    /\ call.length >= 1

\* C9: for every non-blank seed, every namespace that is absent or non-blank
\* and every length >= 1, build_compact_token returns without error a string of
\* exactly `length` characters, all from a-z and 2-7.
C9_ExactLengthAndAlphabet ==
    C9_Applies =>
        /\ result.out.ok
        /\ Len(result.out.val) = call.length
        /\ \A i \in 1..Len(result.out.val) : IsBase32Char(result.out.val[i])

\* clamp(x, lo, hi)
C10_Clamp(x, lo, hi) == IF x < lo THEN lo ELSE IF x > hi THEN hi ELSE x

\* the composite seed of the reference composition for the latest call
C10_Seed ==
    LET joined == last.out.fingerprint \o <<31>> \o AppNorm
    IN  IF last.args.instance_id.t = "none" THEN joined
        ELSE joined \o <<31>> \o InstanceNorm(last).v

\* the identifier the reference composition gives for the suffix token
C10_Compose(token) ==
    LET prefix_budget == last.args.max_length - Len(token) - 1
    IN  IF prefix_budget <= 0 THEN token
        ELSE SubSeq(AppNorm, 1, Min(prefix_budget, Len(AppNorm))) \o <<45>> \o token

\* C10: for all valid inputs build_auto_client_id equals the reference
\* composition: the suffix is build_compact_token(fingerprint + 0x1F + app
\* [+ 0x1F + instance], clamp(max_length - 4, 8, 12), 'mqtt-client'), the
\* prefix budget is max_length - len(suffix) - 1, and the result is the bare
\* suffix when the budget is <= 0, else the first prefix_budget characters of
\* the lowercased app name, a hyphen and the suffix.
C10_ReferenceComposition ==
    Returned =>
        Strict(build_compact_token(Str(C10_Seed),
                                   C10_Clamp(last.args.max_length - 4, 8, 12),
                                   Str(<<109, 113, 116, 116, 45, 99, 108, 105, 101, 110, 116>>)),
               LAMBDA token : token.ok /\ last.out.val = C10_Compose(token.val))

\* the call of the example: app 'agent', instance 'worker1', serial
\* 'serial-client', max_length 23 gives 'agent-' and the 12-character token
C10_Witness ==
    /\ Returned
    /\ last.args = ExampleArgs
    /\ Len(last.out.suffix) = 12
    /\ last.out.val = <<97, 103, 101, 110, 116, 45>> \o last.out.suffix
    /\ last.out.val = <<97, 103, 101, 110, 116, 45, 113, 50, 121, 112, 109, 51, 117, 104, 50,
                        103, 97, 55>>

\* ------------------------------------------------------------------------
\* Direct calls of validate_client_id_component
\* ------------------------------------------------------------------------

\* the longest generated component value
MaxComponentLen == 3

\* the characters of the generated values: a Z 7 - space ! tab
ComponentChars == {97, 90, 55, 45, 32, 33, 9}

\* every string over ComponentChars of at most MaxComponentLen characters
ComponentStrings ==
    UNION {[1..n -> ComponentChars] : n \in 0..MaxComponentLen}

\* the values handed to the validator: the generated strings, " My-App1 ",
\* "bad name!", "\x1fa\x1f", None and a non-string
ComponentValues ==
    {Str(s) : s \in ComponentStrings}
    \cup {Str(S_myapp), Str(S_bad), Str(<<31, 97, 31>>), NoneVal, NotAStr}

ValidateCalls ==
    {[fn |-> "validate_client_id_component", value |-> v, field |-> f] :
        v \in ComponentValues, f \in {"app_name", "instance_id"}}

InitValidate ==
    /\ probe = NoProbe
    /\ env = BareEnv(HostFails)
    /\ args = ExampleArgs
    /\ last = Idle
    /\ prev = Idle
    /\ facts = NoFacts
    /\ call \in ValidateCalls
    /\ result = NoCall

\* a call validate_client_id_component(value, field)
ValidateClientIdComponent ==
    /\ call.fn = "validate_client_id_component"
    /\ result = NoCall
    /\ result' = [fn |-> call.fn, out |-> validate_client_id_component(call.value, call.field)]
    /\ UNCHANGED <<probe, env, args, last, prev, facts, call>>

NextValidate == ValidateClientIdComponent

SpecValidate == InitValidate /\ [][NextValidate]_vars

\* ------------------------------------------------------------------------
\* Properties of the component validator
\* ------------------------------------------------------------------------

\* the positions of s that hold no whitespace
C11_Solid(s) == {i \in 1..Len(s) : s[i] \notin {9, 10, 11, 12, 13, 28, 29, 30, 31, 32}}

\* s without its leading and trailing whitespace
C11_Trimmed(s) ==
    IF C11_Solid(s) = {} THEN <<>>
    ELSE LET first == CHOOSE i \in C11_Solid(s) : \A j \in C11_Solid(s) : i <= j
             final == CHOOSE i \in C11_Solid(s) : \A j \in C11_Solid(s) : j <= i
         IN  [k \in 1..(final - first + 1) |-> s[first + k - 1]]

\* a character of [A-Za-z0-9-]
C11_Allowed(c) ==
    (c >= 65 /\ c <= 90) \/ (c >= 97 /\ c <= 122) \/ (c >= 48 /\ c <= 57) \/ c = 45

\* the value is a string whose trimmed form is non-empty and all in [A-Za-z0-9-]
C11_Acceptable(v) ==
    /\ v.t = "str"
    /\ C11_Trimmed(v.v) # <<>>
    /\ \A i \in 1..Len(C11_Trimmed(v.v)) : C11_Allowed(C11_Trimmed(v.v)[i])

\* s with A-Z replaced by a-z
C11_Lowercased(s) == [i \in 1..Len(s) |-> IF s[i] >= 65 /\ s[i] <= 90 THEN s[i] + 32 ELSE s[i]]

\* C11: validate_client_id_component(value, field) succeeds exactly when value
\* is a string whose trimmed form is non-empty and consists only of characters
\* in [A-Za-z0-9-], and then returns the trimmed value lowercased; in every
\* other case it fails with an error and returns nothing.
C11_ValidatorContract ==
    result # NoCall /\ result.fn = "validate_client_id_component" =>
        IF C11_Acceptable(call.value)
        THEN result.out.ok /\ result.out.val = C11_Lowercased(C11_Trimmed(call.value.v))
        ELSE /\ ~result.out.ok
             /\ result.out.val = <<>>
             /\ result.out.err[1] = "ValueError" /\ result.out.err[2] = call.field

\* " My-App1 " was accepted and returned as "my-app1"
C11_Witness ==
    /\ result # NoCall /\ result.fn = "validate_client_id_component"
    /\ call.value = Str(<<32, 77, 121, 45, 65, 112, 112, 49, 32>>)
    /\ result.out.ok
    /\ result.out.val = <<109, 121, 45, 97, 112, 112, 49>>

\* ------------------------------------------------------------------------
\* Failing calls of the identifier composer
\* ------------------------------------------------------------------------

\* this step is a call of build_auto_client_id that fails on app_name,
\* instance_id or max_length
C12_RefusedCall ==
    /\ last'.done /\ last' # last
    /\ ~last'.out.ok
    /\ last'.out.err[2] \in {"app_name", "instance_id", "max_length"}

\* C12: an invalid app_name, an invalid instance_id or max_length < 8 makes
\* build_auto_client_id fail before any probing or hashing: on such a call
\* neither collect_device_facts nor resolve_device_fingerprint nor
\* build_compact_token is invoked, no probe is begun and no facts are
\* collected, also when serial_number and connections are both unset.
C12_FailsBeforeProbingAndHashing ==
    [][C12_RefusedCall =>
          last'.out.calls = <<>> /\ facts' = facts /\ probe' = probe /\ probe = NoProbe]_vars

\* a refused call with serial_number and connections unset, on a machine whose
\* probes would have found addresses
C12_Witness ==
    /\ last.done /\ ~last.out.ok
    /\ last.out.err[2] = "max_length"
    /\ ~Supplied(last.args)
    /\ last.out.calls = <<>>
    /\ env.host = last.host /\ env.net # {}
    /\ ~facts.collected

\* ------------------------------------------------------------------------
\* The builder: MqttBuilder.__init__, instance_id, persistent_session, build
\* ------------------------------------------------------------------------

\* the app_name arguments of the constructor: "agent", " My-App1 ", "bad name!"
BuilderApps == {Str(S_agent), Str(S_myapp), Str(S_bad)}

\* the arguments of instance_id(...): "worker1", "c", "x y"
BuilderInstanceIds == {Str(S_worker1), Str(S_c), Str(S_xy)}

\* a constructor call MQTTBuilderV3(host, app_name) or MQTTBuilderV5(host, app_name)
\* that has not run yet
NewBuilder(app_name, connector) ==
    [fn |-> "MqttBuilder", app_name |-> app_name, connector |-> connector,
     constructed |-> FALSE, instance_arg |-> NoneVal, clean_session |-> TRUE]

\* the identity fields of an MQTTConfig that does not exist yet
NoConfig == Args(NoneVal, NoneVal, DEFAULT_MAX_CLIENT_ID_LENGTH, NoneVal, NoneVal)

\* ConfigConnections with an empty list stored as None
ConfigConnections_EmptyAsUnset(connections) ==
    IF connections.t = "none" \/ connections.v = <<>> THEN NoneVal ELSE connections

\* mqtt_config.py:10
ConfigConnections(connections) ==
    IF connections.t = "none" THEN List(<<>>) ELSE connections

\* the machines a builder is constructed on: those of EnvSet and a Windows
\* machine with the serial number "serial-client" and one network adapter
BuilderEnvs ==
    EnvSet \cup {Env("Windows", Str(S_serial), {R_global}, <<>>, FALSE, Return(S_hostA))}

InitBuilder ==
    /\ probe = NoProbe
    /\ env \in BuilderEnvs
    /\ args = NoConfig
    /\ last = Idle
    /\ prev = Idle
    /\ facts = NoFacts
    /\ call \in {NewBuilder(a, c) : a \in BuilderApps, c \in {"MQTTConnectionV3", "MQTTConnectionV5"}}
    /\ result = NoCall

\* MqttBuilder.__init__, up to the detection of the platform in
\* collect_device_facts() (mqtt_builder_base.py:39)
Construct ==
    /\ call.fn = "MqttBuilder" /\ ~call.constructed /\ probe = NoProbe
    /\ probe' = ProbeBegun("MqttBuilder")
    /\ UNCHANGED <<env, args, last, prev, facts, call, result>>

\* mqtt_builder_base.py:39-43: the constructor stores the facts
\* collect_device_facts() returned in the configuration
ConstructReturns ==
    /\ probe.pc = "returned" /\ probe.caller = "MqttBuilder"
    /\ args' = Args(call.app_name, NoneVal, DEFAULT_MAX_CLIENT_ID_LENGTH,
                    facts.serial_number, ConfigConnections(List(facts.connections)))
    /\ call' = [call EXCEPT !.constructed = TRUE]
    /\ probe' = NoProbe
    /\ UNCHANGED <<env, last, prev, facts, result>>

\* builder.instance_id(id)
InstanceId ==
    /\ call.fn = "MqttBuilder" /\ call.constructed /\ result = NoCall
    /\ \E id \in BuilderInstanceIds \ {args.instance_id} :
          /\ args' = [args EXCEPT !.instance_id = id]
          /\ call' = [call EXCEPT !.instance_arg = id]
    /\ UNCHANGED <<probe, env, last, prev, facts, result>>

\* builder.persistent_session(b)
PersistentSession ==
    /\ call.fn = "MqttBuilder" /\ call.constructed /\ result = NoCall
    /\ \E b \in BOOLEAN :
          /\ call.clean_session # ~b
          /\ call' = [call EXCEPT !.clean_session = ~b]
    /\ UNCHANGED <<probe, env, args, last, prev, facts, result>>

\* builder.build(): compose the identifier from the configuration and hand it
\* to the connection
Build ==
    /\ call.fn = "MqttBuilder" /\ call.constructed /\ result = NoCall
    /\ \E p \in (IF args.serial_number.t = "none" /\ args.connections.t = "none"
                 THEN collect_device_facts(env) ELSE {NotProbed}) :
       \E out \in {build_auto_client_id(args, env.host, p)} :
          /\ last' = [done |-> TRUE, args |-> args, host |-> env.host, out |-> out]
          /\ result' = [fn |-> "build", ok |-> out.ok, client_id |-> out.val, err |-> out.err,
                        protocol |-> IF call.connector = "MQTTConnectionV3"
                                     THEN "MQTTv311" ELSE "MQTTv5",
                        clean_session |-> call.clean_session]
    /\ UNCHANGED <<probe, env, args, prev, facts, call>>

NextBuilder == Construct \/ ProbeSteps \/ ConstructReturns
                  \/ InstanceId \/ PersistentSession \/ EnvironmentChanges \/ Build

SpecBuilder == InitBuilder /\ [][NextBuilder]_vars

\* ------------------------------------------------------------------------
\* Properties of the builder
\* ------------------------------------------------------------------------

\* the call build_auto_client_id(app_name, instance id of the last
\* instance_id(...) call or none, serial_number and connections of the facts
\* the constructor's probe returned)
C13_ReferenceArgs ==
    [app_name |-> call.app_name, instance_id |-> call.instance_arg,
     max_length |-> 23,
     serial_number |-> facts.serial_number,
     connections |-> [t |-> "list", v |-> facts.connections]]

\* C13: for a builder constructed with app_name while the fact probe returns
\* facts F, after any sequence of configuration calls followed by build(), the
\* connection's client_id equals build_auto_client_id(app_name, the instance
\* id of the last instance_id(...) call or none, serial_number and connections
\* of F); build() uses the facts captured by the constructor and does not
\* probe again, also when F is (no serial, no connections).
C13_BuilderEquivalence ==
    result # NoCall /\ result.fn = "build" =>
        /\ \A i \in 1..Len(last.out.calls) : last.out.calls[i] # "collect_device_facts"
        /\ result.ok => /\ last.out.serial_number = facts.serial_number
                        /\ last.out.connections = facts.connections
        /\ Strict(build_auto_client_id(C13_ReferenceArgs, last.host,
                                       [serial_number |-> NoneVal, connections |-> <<>>]),
                  LAMBDA ref : /\ result.ok = ref.ok
                               /\ result.client_id = ref.val
                               /\ result.err = ref.err)

\* a builder constructed where the probe found nothing, configured with an
\* instance id, and built after the machine's probe sources changed
C13_Witness ==
    /\ result # NoCall /\ result.fn = "build" /\ result.ok
    /\ facts.collected
    /\ facts.serial_number.t = "none" /\ facts.connections = <<>>
    /\ call.instance_arg.t = "str"
    /\ env.host = last.host /\ env.runtime = "Linux"
    /\ result.client_id = last.out.val

\* ------------------------------------------------------------------------
\* The fact probe with failing sources
\* ------------------------------------------------------------------------

\* The sources a probe reads, each of which may fail (a missing file or
\* directory, an absent command, a non-zero exit):
\*   "serial"    the first serial source of the platform (product_serial,
\*               ioreg, powershell, machine.unique_id)
\*   "devicetree", "proc-device-tree", "cpuinfo", "wmic bios"
\*               the serial sources asked after it (FallbackSources)
\*   "net"       the network source as a whole (/sys/class/net, networksetup,
\*               getmac, the network module)
\*   "net-file"  the address file of one interface (env.unreadable)
\*   "bt"        the Bluetooth source (/sys/class/bluetooth, bluetoothctl,
\*               system_profiler, wmic nic)
\*   "btmgmt"    the command `btmgmt info` (Linux)
Sources(runtime) ==
    SerialSources(runtime) \cup
    (IF runtime = "Linux" THEN {"net", "net-file", "bt", "btmgmt"}
     ELSE IF runtime = "MicroPython" THEN {"net", "net-file"}
     ELSE {"net", "bt"})

\* "SN-1" as the serial of the first source
IsolationSerials == {NoneVal, Str(S_sn1)}

\* "serial-client" as the serial of /proc/device-tree/serial-number or of
\* `wmic bios`
IsolationFallbacks(runtime) ==
    {<<>>} \cup (IF runtime = "Linux" THEN {<<NoneVal, Str(S_serial)>>}
                 ELSE IF runtime = "Windows" THEN {<<Str(S_serial)>>}
                 ELSE {})

IsolationNets == {{}, {R_global, R_local}, {R_global, M_a8bb, R_dotted}}

IsolationBts == {<<>>, <<M_bt>>, <<R_local, ZERO_MAC>>}

\* a MicroPython machine has the two interfaces STA_IF and AP_IF
IsolationEnvs ==
    UNION {{FailingEnv(WithFallback(Env(rt, sn, net, bt, pub, Return(S_hostA)), fb), {}, {}) :
               sn \in IsolationSerials, fb \in IsolationFallbacks(rt),
               net \in {n \in IsolationNets :
                           rt = "MicroPython" => Cardinality(n) <= WLAN_INTERFACES},
               bt \in IsolationBts, pub \in BOOLEAN} :
           rt \in RUNTIMES \cup {"Unknown"}}

InitIsolation ==
    /\ probe = NoProbe
    /\ env \in IsolationEnvs
    /\ args = ExampleArgs
    /\ last = Idle
    /\ prev = Idle
    /\ facts = NoFacts
    /\ call = NoCall
    /\ result = NoCall

\* one source of the platform starts to fail, between two probes or while a
\* probe runs; the reads after it see no data
SourceFails ==
    /\ env.failed = {}
    /\ \E src \in Sources(env.runtime) :
          /\ src = "net-file" => env.net # {}
          /\ \E r \in (IF src = "net-file" THEN env.net ELSE {<<>>}) :
                env' = FailingEnv(env, {src}, IF src = "net-file" THEN {r} ELSE {})
    /\ UNCHANGED <<probe, args, last, prev, facts, call, result>>

\* a second call collect_device_facts(), up to the detection of the platform;
\* the caller keeps what the first call returned and which of its reads failed
CollectDeviceFactsAgain ==
    /\ probe.pc = "returned" /\ probe.caller = "collect_device_facts"
    /\ result = NoCall
    /\ result' = [fn |-> "collect_device_facts", val |-> ReturnedFacts,
                  failed |-> probe.failed]
    /\ probe' = ProbeBegun("collect_device_facts")
    /\ UNCHANGED <<env, args, last, prev, facts, call>>

NextIsolation == CollectDeviceFacts \/ ProbeSteps \/ SourceFails \/ CollectDeviceFactsAgain

SpecIsolation == InitIsolation /\ [][NextIsolation]_vars

\* ------------------------------------------------------------------------
\* C14: isolation of the sub-probes
\* ------------------------------------------------------------------------

\* the tuples of one kind in a list of connections
C14_OfKind(l, kind) == {l[i] : i \in {j \in 1..Len(l) : l[j].kind = kind}}

\* a second probe has returned, after a first probe none of whose reads failed
C14_Applies ==
    /\ result # NoCall /\ result.fn = "collect_device_facts"
    /\ result.failed = {}
    /\ probe.pc = "returned"

\* the addresses that the readable interface files hold
C14_StillReadable(c) ==
    \E r \in env.net \ env.unreadable : _normalize_mac(Str(r)) = Str(c.value)

\* the serial of the first serial source of the machine, in the order the
\* platform's probe asks them, that holds one and is not among `failed`
C14_SerialLeft(failed) ==
    LET names == <<"serial">> \o FallbackSources(env.runtime)
        held(i) == IF i = 1 THEN env.serial
                   ELSE IF i - 1 <= Len(env.serial_fallback) THEN env.serial_fallback[i - 1]
                   ELSE NoneVal
        giving == {i \in 1..Len(names) : names[i] \notin failed /\ held(i) # NoneVal}
    IN  IF env.runtime \notin RUNTIMES \/ giving = {} THEN NoneVal
        ELSE held(CHOOSE i \in giving : \A j \in giving : i <= j)

\* what the reads that failed in the second probe leave of the facts the
\* first probe returned; btGated says whether a failing btmgmt takes the
\* Bluetooth addresses away
C14_Isolation(btGated) ==
    LET failed == probe.failed
        pre  == result.val
        post == ReturnedFacts
        Macs(f) == C14_OfKind(f.connections, CONN_MAC)
        Bts(f)  == C14_OfKind(f.connections, CONN_BT)
    IN  /\ post.serial_number = C14_SerialLeft(failed)
        /\ Macs(post) \subseteq Macs(pre) /\ Bts(post) \subseteq Bts(pre)
        /\ failed \cap SerialSources(env.runtime) = {} =>
              post.serial_number = pre.serial_number
        /\ failed \cap {"net", "net-file"} = {} => Macs(post) = Macs(pre)
        /\ failed \cap {"bt", "btmgmt"} = {} => Bts(post) = Bts(pre)
        /\ "net-file" \in failed =>
              \A c \in Macs(pre) : C14_StillReadable(c) => c \in Macs(post)
        /\ "btmgmt" \in failed =>
              IF btGated THEN Bts(post) = {} ELSE Bts(post) = Bts(pre)

\* on a platform that is not recognised no probe runs
C14_UnknownPlatformEmpty ==
    facts.collected /\ env.runtime \notin RUNTIMES =>
        facts.serial_number = NoneVal /\ facts.connections = <<>>

\* C14 as stated: collect_device_facts returns facts whatever fails; an
\* unrecognised platform gives no serial and no connections; a failing serial
\* probe leaves the connections as they were, a failing connection source
\* leaves the serial as it was, and the failure of any one source of a
\* connection probe removes no address that another source found.
C14_SourcesIsolated ==
    /\ C14_UnknownPlatformEmpty
    /\ C14_Applies => C14_Isolation(FALSE)

\* C14, amended: the same, except that on Linux the Bluetooth addresses are
\* emitted only while `btmgmt info` confirms a public address: when btmgmt
\* fails, every Bluetooth address is omitted and the MAC addresses stay. A
\* failing serial source hands over to the next one: the serial returned is
\* that of the first source that works and holds one.
C14_IsolatedUpToBluetoothGate ==
    /\ C14_UnknownPlatformEmpty
    /\ C14_Applies => C14_Isolation(TRUE)

\* btmgmt fails on a Linux machine whose probe had found a MAC address and a
\* Bluetooth address: the MAC address stays, the Bluetooth address is gone
C14_Witness ==
    /\ C14_Applies
    /\ probe.failed = {"btmgmt"}
    /\ C14_OfKind(result.val.connections, CONN_BT) # {}
    /\ C14_OfKind(result.val.connections, CONN_MAC) # {}
    /\ C14_OfKind(facts.connections, CONN_BT) = {}
    /\ C14_OfKind(facts.connections, CONN_MAC) = C14_OfKind(result.val.connections, CONN_MAC)

\* ------------------------------------------------------------------------
\* The fact probe step by step: the external commands it runs
\* ------------------------------------------------------------------------

\* the commands that _run_cmd is called with
COMMANDS == {"btmgmt", "bluetoothctl", "ioreg", "networksetup", "system_profiler",
             "powershell", "wmic bios", "getmac", "wmic nic"}

\* what collect_device_facts may return on e for each set of sources without
\* data
ProbeOutcomes(e) ==
    {[nodata |-> nodata,
      facts  |-> collect_device_facts(EffectiveEnv(FailingEnv(e, nodata, {})))] :
        nodata \in SUBSET {"serial", "wmic bios", "net", "bt", "btmgmt"}}

\* a machine: an environment, whether /sys/class/bluetooth exists, the
\* commands that never finish once started, and the outcomes of a probe on it
Machine(e, bt_sysfs, hanging) ==
    [runtime |-> e.runtime, serial |-> e.serial, serial_fallback |-> e.serial_fallback,
     net |-> e.net, bt |-> e.bt, bt_public |-> e.bt_public, host |-> e.host,
     bt_sysfs |-> bt_sysfs, hanging |-> hanging, outcomes |-> ProbeOutcomes(e)]

\* the commands a probe runs, in program order; "wmic bios" joins them when
\* powershell gives no serial (facts.py:291-295)
ProbeCommands(e) ==
    IF e.runtime = "Linux"
    THEN <<"btmgmt">> \o (IF e.bt_sysfs THEN <<>> ELSE <<"bluetoothctl">>)
    ELSE IF e.runtime = "Darwin" THEN <<"ioreg", "networksetup", "system_profiler">>
    ELSE IF e.runtime = "Windows" THEN <<"powershell", "getmac", "wmic nic">>
    ELSE <<>>

\* the source that has no data when the command gives none
SourceOfCommand(cmd) ==
    IF cmd = "btmgmt" THEN "btmgmt"
    ELSE IF cmd \in {"ioreg", "powershell"} THEN "serial"
    ELSE IF cmd = "wmic bios" THEN "wmic bios"
    ELSE IF cmd \in {"networksetup", "getmac"} THEN "net"
    ELSE "bt"

\* the sources without data when the commands nodata gave none
SourcesWithoutData(nodata) == {SourceOfCommand(c) : c \in nodata}

NotRunning == "none"

RunSerials == {NoneVal, Str(S_sn1)}

\* on Windows `wmic bios` holds the serial "serial-client"
RunMachines ==
    {Machine(WithFallback(Env(rt, sn, {R_global}, <<M_bt>>, TRUE, Return(S_hostA)),
                          IF rt = "Windows" THEN <<Str(S_serial)>> ELSE <<>>),
             sysfs, hanging) :
        rt \in RUNTIMES \cup {"Unknown"}, sn \in RunSerials, sysfs \in BOOLEAN,
        hanging \in {{}} \cup {{c} : c \in COMMANDS}}

InitRun ==
    /\ probe = NoProbe
    /\ env \in RunMachines
    /\ args = ExampleArgs
    /\ last = Idle
    /\ prev = Idle
    /\ facts = NoFacts
    /\ call = NoCall
    /\ result = NoCall

\* collect_device_facts() is called
BeginCollect ==
    /\ call = NoCall /\ ~facts.collected
    /\ call' = [fn |-> "collect_device_facts", pending |-> ProbeCommands(env),
                running |-> NotRunning, nodata |-> {}]
    /\ UNCHANGED <<probe, env, args, last, prev, facts, result>>

\* _run_cmd calls subprocess.check_output(cmd, text=True, stderr=DEVNULL) and
\* waits for the command
RunCmd ==
    /\ call # NoCall /\ call.running = NotRunning /\ call.pending # <<>>
    /\ call' = [call EXCEPT !.running = Head(call.pending),
                            !.pending = Tail(call.pending)]
    /\ UNCHANGED <<probe, env, args, last, prev, facts, result>>

\* the command exits, with output or with an error that _run_cmd turns into ""
CommandExits ==
    /\ call # NoCall /\ call.running # NotRunning
    /\ call.running \notin env.hanging
    /\ \E ok \in BOOLEAN :
          LET data == /\ ok
                      /\ call.running = "powershell" => env.serial # NoneVal
                      /\ call.running = "wmic bios" => FallbackSerial(env, 1) # NoneVal
          IN  call' = [call EXCEPT
                  !.running = NotRunning,
                  !.nodata  = IF data THEN @ ELSE @ \cup {call.running},
                  !.pending = IF call.running = "powershell" /\ ~data
                              THEN <<"wmic bios">> \o @ ELSE @]
    /\ UNCHANGED <<probe, env, args, last, prev, facts, result>>

\* collect_device_facts returns
ReturnFacts ==
    /\ call # NoCall /\ call.running = NotRunning /\ call.pending = <<>>
    /\ \E o \in env.outcomes : \E p \in o.facts :
          /\ o.nodata = SourcesWithoutData(call.nodata)
          /\ facts' = Collected(p)
          /\ result' = [fn |-> "collect_device_facts", val |-> p]
    /\ call' = NoCall
    /\ UNCHANGED <<probe, env, args, last, prev>>

NextRun == BeginCollect \/ RunCmd \/ CommandExits \/ ReturnFacts

\* the interpreter keeps running: a step that can be taken is taken
SpecRun == InitRun /\ [][NextRun]_vars /\ WF_vars(NextRun)

\* ------------------------------------------------------------------------
\* C15: no probe blocks indefinitely
\* ------------------------------------------------------------------------

C15_Probing == call # NoCall /\ call.fn = "collect_device_facts"

\* C15: every external command carries a bounded timeout after which it
\* counts as no data, so a call of collect_device_facts eventually returns,
\* whatever the commands do.
C15_ProbeEventuallyReturns == C15_Probing ~> facts.collected

\* ------------------------------------------------------------------------
\* C16: the truncations of the composer are no-ops
\* ------------------------------------------------------------------------

\* clamp(max_length - 4, 8, 12)
C16_TokenLength(max_length) ==
    IF max_length - 4 < 8 THEN 8 ELSE IF max_length - 4 > 12 THEN 12 ELSE max_length - 4

\* what the latest call composes before any truncation to max_length
C16_Untruncated ==
    LET suffix == last.out.suffix
        prefix_budget == last.args.max_length - Len(suffix) - 1
        prefix == IF prefix_budget <= 0 THEN <<>>
                  ELSE SubSeq(AppNorm, 1, Min(prefix_budget, Len(AppNorm)))
    IN  IF prefix = <<>> THEN suffix ELSE prefix \o <<45>> \o suffix

\* the last n characters of s
C16_Tail(s, n) == SubSeq(s, Len(s) - n + 1, Len(s))

\* C16: for every max_length >= 8 the truncations are no-ops: the suffix is
\* not longer than max_length, so suffix[:max_length] is the whole suffix; the
\* prefixed result is within max_length before the final clamp; and the
\* returned identifier ends with the complete token of
\* clamp(max_length - 4, 8, 12) characters, never fewer than 8.
C16_TruncationsAreNoOps ==
    Returned =>
        LET suffix == last.out.suffix
            max_length == last.args.max_length
        IN  /\ max_length >= 8
            /\ Len(suffix) = C16_TokenLength(max_length)
            /\ Len(suffix) >= 8
            /\ Len(suffix) <= max_length
            /\ Take(suffix, max_length) = suffix
            /\ Len(C16_Untruncated) <= max_length
            /\ last.out.val = C16_Untruncated
            /\ Len(last.out.val) >= Len(suffix)
            /\ C16_Tail(last.out.val, Len(suffix)) = suffix

\* a call with max_length 8, the smallest allowed: the identifier is the whole
\* 8-character token
C16_Witness ==
    /\ Returned
    /\ last.args.max_length = 8
    /\ Len(last.out.suffix) = 8
    /\ last.out.val = last.out.suffix

=============================================================================
